---- MODULE Spec2Model ----
(***************************************************************************)
(* Model of mysql-sniffer-go: the per-flow MySQL protocol state machine    *)
(* (handlePacket / processPacket / processRequest / processResponse), the  *)
(* wire framer (carvePacket), the COM_QUERY payload decoder                *)
(* (parseComQuery), the query canonicalizer (scanToken / cleanupQuery) and *)
(* the fingerprint formatter (formatQueryText).                            *)
(*                                                                         *)
(* Byte slices and strings are sequences of byte values 0..255.  A nil     *)
(* pointer or nil slice is the empty sequence; a non-nil pointer to x is   *)
(* the one-element sequence <<x>>.                                         *)
(***************************************************************************)
EXTENDS Integers, Sequences, FiniteSets, TLC

\* ------------------------------------------------------------------------
\* Bounds of the model
\* ------------------------------------------------------------------------

\* number of captured segments handled in one behaviour
MaxPackets == 4

\* ------------------------------------------------------------------------
\* Program constants
\* ------------------------------------------------------------------------

TOKEN_WORD == 0
TOKEN_QUOTE == 1
TOKEN_NUMBER == 2
TOKEN_WHITESPACE == 3
TOKEN_OTHER == 4

TIME_BUCKETS == 10000

\* F_NONE = iota is the 13th constant of its block
F_NONE == 12
F_QUERY == 13
F_ROUTE == 14
F_SOURCE == 15
F_SOURCEIP == 16

COM_QUERY == 3
COM_PING == 14
COM_STMT_EXECUTE == 23

verbose == FALSE
noclean == FALSE
dirty == FALSE

\* ------------------------------------------------------------------------
\* Generic helpers on sequences
\* ------------------------------------------------------------------------

Nil == <<>>

Some(x) == <<x>>

Min(S) == CHOOSE x \in S : \A y \in S : x <= y

\* s[from:] of Go, with from a 0-based offset
Drop(s, from) == SubSeq(s, from + 1, Len(s))

\* s[:to] of Go
Take(s, to) == SubSeq(s, 1, to)

\* 0-based index of the first occurrence of byte b in s, or -1
IndexByte(s, b) ==
    LET S == {i \in 1..Len(s) : s[i] = b}
    IN  IF S = {} THEN -1 ELSE Min(S) - 1

HasPrefix(s, p) == Len(s) >= Len(p) /\ Take(s, Len(p)) = p

\* strings.SplitN(s, sep, n) for a one-byte separator and n > 0
RECURSIVE SplitN(_, _, _)
SplitN(s, sep, n) ==
    LET idx == IndexByte(s, sep)
    IN  IF n <= 1 \/ idx < 0
        THEN <<s>>
        ELSE <<Take(s, idx)>> \o SplitN(Drop(s, idx + 1), sep, n - 1)

\* strings.ReplaceAll(s, old, "") for a non-empty old
RECURSIVE RemoveAll(_, _)
RemoveAll(s, old) ==
    IF s = <<>> THEN <<>>
    ELSE IF HasPrefix(s, old) THEN RemoveAll(Drop(s, Len(old)), old)
    ELSE <<s[1]>> \o RemoveAll(Drop(s, 1), old)

\* ------------------------------------------------------------------------
\* Wire framer
\* ------------------------------------------------------------------------

\* carvePacket(&buf): err = TRUE when no complete packet is available (the
\* buffer is then untouched), otherwise the command byte, the payload after
\* the command byte and the remaining buffer.
\* faulty variant: a zero header length is accepted
PacketIncomplete_AllowsEmpty(dataLen, size) == dataLen < size + 4

\* "if size == 0 || dataLen < size+4"
PacketIncomplete(dataLen, size) == size = 0 \/ dataLen < size + 4

\* faulty variant: the payload keeps the command byte
CarvedData_WithCommand(buf, size) == SubSeq(buf, 5, size + 4)

\* data := (*buf)[5 : size+4]
CarvedData(buf, size) == SubSeq(buf, 6, size + 4)

carvePacket(buf) ==
    LET dataLen == Len(buf)
        size == IF dataLen >= 3 THEN buf[1] + buf[2] * 256 + buf[3] * 65536 ELSE 0
        end == size + 4
    IN  IF dataLen < 5
        THEN [err |-> TRUE, pType |-> 0, data |-> Nil, buf |-> buf]
        ELSE IF PacketIncomplete(dataLen, size)
        THEN [err |-> TRUE, pType |-> 0, data |-> Nil, buf |-> buf]
        ELSE [err |-> FALSE,
              pType |-> buf[5],
              data |-> CarvedData(buf, size),
              buf |-> IF end >= dataLen THEN Nil ELSE Drop(buf, end)]

\* ------------------------------------------------------------------------
\* Command payload decoder
\* ------------------------------------------------------------------------

\* mysql.LengthEncodedInt(b): (num, isNull, n).  The multi-byte forms index
\* the bytes after the prefix without a length check: panic is TRUE when a
\* truncated multi-byte form makes that index run out of range.  For the
\* 8-byte form the model keeps the low four bytes of the value.
LengthEncodedInt(b) ==
    IF Len(b) = 0 THEN [num |-> 0, isNull |-> TRUE, n |-> 0, panic |-> FALSE]
    ELSE IF b[1] = 251 THEN [num |-> 0, isNull |-> TRUE, n |-> 1, panic |-> FALSE]
    ELSE IF b[1] = 252
    THEN IF Len(b) < 3 THEN [num |-> 0, isNull |-> FALSE, n |-> 0, panic |-> TRUE]
         ELSE [num |-> b[2] + b[3] * 256, isNull |-> FALSE, n |-> 3, panic |-> FALSE]
    ELSE IF b[1] = 253
    THEN IF Len(b) < 4 THEN [num |-> 0, isNull |-> FALSE, n |-> 0, panic |-> TRUE]
         ELSE [num |-> b[2] + b[3] * 256 + b[4] * 65536, isNull |-> FALSE, n |-> 4,
               panic |-> FALSE]
    ELSE IF b[1] = 254
    THEN IF Len(b) < 9 THEN [num |-> 0, isNull |-> FALSE, n |-> 0, panic |-> TRUE]
         ELSE [num |-> b[2] + b[3] * 256 + b[4] * 65536 + (b[5] % 128) * 16777216,
               isNull |-> FALSE, n |-> 9, panic |-> FALSE]
    ELSE [num |-> b[1], isNull |-> FALSE, n |-> 1, panic |-> FALSE]

\* parseComQuery(data): err = TRUE with no query, or the query text; panic
\* = TRUE when the length-encoded integer decoder ran out of range
parseComQuery(data) ==
    IF Len(data) = 0 THEN [err |-> TRUE, query |-> Nil, panic |-> FALSE]
    ELSE IF data[1] < 32 \/ data[1] >= 251
    THEN LET pc == LengthEncodedInt(data)
         IN  IF pc.panic THEN [err |-> TRUE, query |-> Nil, panic |-> TRUE]
             ELSE IF pc.isNull \/ pc.n = 0
             THEN [err |-> FALSE, query |-> data, panic |-> FALSE]
             ELSE IF pc.n >= Len(data)
             THEN [err |-> TRUE, query |-> Nil, panic |-> FALSE]
             ELSE LET psc == LengthEncodedInt(Drop(data, pc.n))
                      offset == pc.n + psc.n
                  IN  IF psc.panic THEN [err |-> TRUE, query |-> Nil, panic |-> TRUE]
                      ELSE IF psc.isNull THEN [err |-> TRUE, query |-> Nil, panic |-> FALSE]
                      ELSE IF pc.num > 0 THEN [err |-> TRUE, query |-> Nil, panic |-> FALSE]
                      ELSE IF offset >= Len(data)
                      THEN [err |-> TRUE, query |-> Nil, panic |-> FALSE]
                      ELSE [err |-> FALSE, query |-> Drop(data, offset), panic |-> FALSE]
    ELSE [err |-> FALSE, query |-> data, panic |-> FALSE]

\* ------------------------------------------------------------------------
\* Response decoder
\* ------------------------------------------------------------------------

MYSQL_OK_PACKET == 0
MYSQL_EOF_PACKET == 254
MYSQL_ERR_PACKET == 255

\* The text a decoder returns, as the parts it is built from: the kind of
\* response named at its start and the values written after it (Nil for a
\* part the text does not mention).  rows is Nil when no rows are printed,
\* otherwise the list of printed rows, each a list of [name, val] pairs.
\* panic is TRUE when the decoder indexes out of range instead of returning.
Report(kind) ==
    [kind |-> kind, affected |-> Nil, insertId |-> Nil, warnings |-> Nil,
     code |-> Nil, sqlState |-> Nil, message |-> Nil,
     columnCount |-> 0, columns |-> <<>>, rows |-> Nil, panic |-> FALSE]

Panicked == [Report("panic") EXCEPT !.panic = TRUE]

\* mysql.LengthEncodedString(b): (value, n, err); eof is TRUE when the
\* declared length runs past the end of b (the value is then nil and n
\* still counts the declared length)
LengthEncodedString(b) ==
    LET i == LengthEncodedInt(b)
    IN  IF i.panic THEN [val |-> <<>>, n |-> 0, eof |-> FALSE, panic |-> TRUE]
        ELSE IF i.num < 1
        THEN [val |-> <<>>, n |-> i.n, eof |-> FALSE, panic |-> FALSE]
        ELSE IF Len(b) >= i.n + i.num
        THEN [val |-> SubSeq(b, i.n + 1, i.n + i.num), n |-> i.n + i.num,
              eof |-> FALSE, panic |-> FALSE]
        ELSE [val |-> <<>>, n |-> i.n + i.num, eof |-> TRUE, panic |-> FALSE]

\* parseOKPacket(data)
parseOKPacket(data) ==
    IF Len(data) < 7 THEN Report("OK")
    ELSE LET affectedRows == LengthEncodedInt(Drop(data, 1))
         IN  IF affectedRows.panic THEN Panicked
             ELSE LET pos1 == 1 + affectedRows.n
                      lastInsertID == LengthEncodedInt(Drop(data, pos1))
                      pos == pos1 + lastInsertID.n
                      warnings == IF Len(data) >= pos + 4
                                  THEN data[pos + 3] + data[pos + 4] * 256
                                  ELSE 0
                  IN  IF lastInsertID.panic THEN Panicked
                      ELSE [Report("OK") EXCEPT
                               !.affected = IF affectedRows.num > 0
                                            THEN Some(affectedRows.num) ELSE Nil,
                               !.insertId = IF lastInsertID.num > 0
                                            THEN Some(lastInsertID.num) ELSE Nil,
                               !.warnings = IF warnings > 0
                                            THEN Some(warnings) ELSE Nil]

\* parseErrorPacket(data); 35 is '#'
parseErrorPacket(data) ==
    IF Len(data) < 9 THEN Report("ERROR")
    ELSE LET errorCode == data[2] + data[3] * 256
         IN  IF data[4] = 35
             THEN [Report("ERROR") EXCEPT !.code = Some(errorCode),
                                          !.sqlState = Some(SubSeq(data, 5, 9)),
                                          !.message = Some(Drop(data, 9))]
             ELSE [Report("ERROR") EXCEPT !.code = Some(errorCode),
                                          !.message = Some(Drop(data, 3))]

\* parseResultSetPacket(data, showRows)
parseResultSetPacket(data) ==
    IF Len(data) < 1 THEN Report("Empty result set")
    ELSE LET columnCount == LengthEncodedInt(data)
         IN  IF columnCount.panic THEN Panicked
             ELSE IF columnCount.n = 0 \/ columnCount.num = 0
             THEN Report("Result set with 0 columns")
             ELSE [Report("ResultSet") EXCEPT !.columnCount = columnCount.num]

\* parseResponse(data, showRows)
parseResponse(data) ==
    IF Len(data) < 1 THEN Report("Empty response")
    ELSE IF data[1] = MYSQL_OK_PACKET THEN parseOKPacket(data)
    ELSE IF data[1] = MYSQL_ERR_PACKET THEN parseErrorPacket(data)
    ELSE IF data[1] = MYSQL_EOF_PACKET THEN Report("EOF")
    ELSE parseResultSetPacket(data)

\* faulty variant: the loop stops after the first packet
collectAllResponsePackets_FirstOnly(buf) ==
    IF Len(buf) < 4 THEN <<>>
    ELSE LET size == buf[1] + buf[2] * 256 + buf[3] * 65536
         IN  IF size = 0 \/ Len(buf) < size + 4 THEN <<>>
             ELSE <<SubSeq(buf, 5, size + 4)>>

\* collectAllResponsePackets(buffer)
RECURSIVE collectAllResponsePackets(_)
collectAllResponsePackets(buf) ==
    IF Len(buf) < 4 THEN <<>>
    ELSE LET size == buf[1] + buf[2] * 256 + buf[3] * 65536
         IN  IF size = 0 \/ Len(buf) < size + 4 THEN <<>>
             ELSE <<SubSeq(buf, 5, size + 4)>>
                      \o collectAllResponsePackets(Drop(buf, size + 4))

\* one "_, _, n, _ = mysql.LengthEncodedString(data[pos:]); pos += n" of
\* parseColumnDefinition; slicing at a pos beyond len(data) panics
SkipString(data, st) ==
    IF st.panic THEN st
    ELSE IF st.pos > Len(data) THEN [pos |-> st.pos, panic |-> TRUE]
    ELSE LET s == LengthEncodedString(Drop(data, st.pos))
         IN  [pos |-> st.pos + s.n, panic |-> s.panic]

\* parseColumnDefinition(data): catalog, schema, table and org_table are
\* skipped, the fifth string is the name
parseColumnDefinition(data) ==
    LET start == [pos |-> 0, panic |-> FALSE]
        st == SkipString(data, SkipString(data, SkipString(data, SkipString(data, start))))
    IN  IF st.panic \/ st.pos > Len(data) THEN [name |-> <<>>, panic |-> TRUE]
        ELSE LET s == LengthEncodedString(Drop(data, st.pos))
             IN  [name |-> s.val, panic |-> s.panic]

\* "NULL"
NullText == <<78, 85, 76, 76>>

\* parseRowData(data, columnCount) from offset pos and column i on
RECURSIVE RowValues(_, _, _, _)
RowValues(data, pos, i, columnCount) ==
    IF ~(i < columnCount /\ pos < Len(data))
    THEN [values |-> <<>>, panic |-> FALSE]
    ELSE IF data[pos + 1] = 251
    THEN LET rest == RowValues(data, pos + 1, i + 1, columnCount)
         IN  [rest EXCEPT !.values = <<NullText>> \o @]
    ELSE LET s == LengthEncodedString(Drop(data, pos))
         IN  IF s.panic THEN [values |-> <<>>, panic |-> TRUE]
             ELSE IF s.n = 0 THEN [values |-> <<>>, panic |-> FALSE]
             ELSE LET rest == RowValues(data, pos + s.n, i + 1, columnCount)
                  IN  [rest EXCEPT !.values = <<s.val>> \o @]

parseRowData(data, columnCount) == RowValues(data, 0, 0, columnCount)

\* the column-definition loop of parseResultSetFull from packet pktIdx
\* (0-based) and column i on
RECURSIVE ParseColumns(_, _, _, _, _)
ParseColumns(packets, pktIdx, i, columnCount, columns) ==
    IF ~(i < columnCount /\ pktIdx < Len(packets))
    THEN [columns |-> columns, pktIdx |-> pktIdx, panic |-> FALSE]
    ELSE LET pkt == packets[pktIdx + 1]
             col == parseColumnDefinition(pkt)
         IN  IF Len(pkt) > 0 /\ pkt[1] = MYSQL_EOF_PACKET
             THEN [columns |-> columns, pktIdx |-> pktIdx, panic |-> FALSE]
             ELSE IF col.panic
             THEN [columns |-> columns, pktIdx |-> pktIdx, panic |-> TRUE]
             ELSE ParseColumns(packets, pktIdx + 1, i + 1, columnCount,
                               Append(columns, col.name))

\* faulty variant: the EOF packet after the column definitions is not skipped
AfterColumnEOF_Kept(packets, pktIdx) == pktIdx

\* "Skip EOF packet after column definitions"
AfterColumnEOF(packets, pktIdx) ==
    IF /\ pktIdx < Len(packets)
       /\ Len(packets[pktIdx + 1]) > 0
       /\ packets[pktIdx + 1][1] = MYSQL_EOF_PACKET
    THEN pktIdx + 1
    ELSE pktIdx

\* the row loop of parseResultSetFull from packet pktIdx (0-based) on; a
\* row with more values than parsed column names indexes columns out of
\* range
RECURSIVE ParseRows(_, _, _, _)
ParseRows(packets, pktIdx, columnCount, columns) ==
    IF ~(pktIdx < Len(packets)) THEN [rows |-> <<>>, panic |-> FALSE]
    ELSE LET pkt == packets[pktIdx + 1]
         IN  IF Len(pkt) = 0
             THEN ParseRows(packets, pktIdx + 1, columnCount, columns)
             ELSE IF pkt[1] = MYSQL_EOF_PACKET \/ pkt[1] = MYSQL_ERR_PACKET
             THEN [rows |-> <<>>, panic |-> FALSE]
             ELSE LET rowData == parseRowData(pkt, columnCount)
                      n == Len(rowData.values)
                  IN  IF rowData.panic \/ n > Len(columns)
                      THEN [rows |-> <<>>, panic |-> TRUE]
                      ELSE LET row == [k \in 1..n |->
                                          [name |-> columns[k],
                                           val |-> rowData.values[k]]]
                               rest == ParseRows(packets, pktIdx + 1,
                                                 columnCount, columns)
                           IN  IF n > 0
                               THEN [rest EXCEPT !.rows = <<row>> \o @]
                               ELSE rest

\* parseResultSetFull(packets, showRows)
parseResultSetFull(packets, showRows) ==
    IF Len(packets) < 2 THEN Report("Incomplete result set")
    ELSE LET columnCount == LengthEncodedInt(packets[1])
             cols == ParseColumns(packets, 1, 0, columnCount.num, <<>>)
             rows == ParseRows(packets, AfterColumnEOF(packets, cols.pktIdx),
                               columnCount.num, cols.columns)
         IN  IF columnCount.panic THEN Panicked
             ELSE IF columnCount.n = 0 \/ columnCount.num = 0
             THEN Report("Result set with 0 columns")
             ELSE IF cols.panic \/ (showRows /\ rows.panic) THEN Panicked
             ELSE [Report("ResultSet") EXCEPT
                      !.columnCount = columnCount.num,
                      !.columns = cols.columns,
                      !.rows = IF showRows THEN Some(rows.rows) ELSE Nil]

\* the result text displayQueryResult prints for a non-empty response buffer
DisplayedResult(responseData, showRows) ==
    LET packets == collectAllResponsePackets(responseData)
    IN  IF /\ Len(packets) > 1
           /\ responseData[1] # MYSQL_OK_PACKET
           /\ responseData[1] # MYSQL_ERR_PACKET
        THEN parseResultSetFull(packets, showRows)
        ELSE parseResponse(responseData)

\* ------------------------------------------------------------------------
\* Query canonicalizer
\* ------------------------------------------------------------------------

IsDigit(b) == b >= 48 /\ b <= 57

IsSpace(b) == b = 32 \/ (b >= 9 /\ b <= 13)

IsLetter(b) == (b >= 65 /\ b <= 90) \/ (b >= 97 /\ b <= 122)

IsWordByte(b) == IsDigit(b) \/ IsLetter(b) \/ b = 36 \/ b = 95

\* faulty variant: the quote ends at the next quote character, escaped or not
ScanQuote_NoEscape(query, i, started_with, escaped) ==
    LET S == {k \in (i + 1)..Len(query) : query[k] = started_with}
    IN  IF S = {} THEN Len(query) ELSE Min(S)

\* the quote loop of scanToken from 0-based index i: the token length
RECURSIVE ScanQuote(_, _, _, _)
ScanQuote(query, i, started_with, escaped) ==
    IF i >= Len(query) THEN Len(query)
    ELSE IF query[i + 1] = started_with
    THEN IF escaped THEN ScanQuote(query, i + 1, started_with, FALSE) ELSE i + 1
    ELSE IF query[i + 1] = 92 THEN ScanQuote(query, i + 1, started_with, TRUE)
    ELSE ScanQuote(query, i + 1, started_with, FALSE)

\* the digit loop of scanToken
ScanNumber(query) ==
    LET S == {i \in 1..(Len(query) - 1) : ~IsDigit(query[i + 1])}
    IN  IF S = {} THEN Len(query) ELSE Min(S)

\* the whitespace loop of scanToken
ScanSpace(query) ==
    LET S == {i \in 1..(Len(query) - 1) : ~IsSpace(query[i + 1])}
    IN  IF S = {} THEN Len(query) ELSE Min(S)

\* the word loop of scanToken
ScanWord(query) ==
    LET S == {i \in 1..(Len(query) - 1) : ~IsWordByte(query[i + 1])}
    IN  IF S = {} THEN Len(query) ELSE Min(S)

\* faulty variant: a byte of no class is a token of length 0
scanToken_EmptyOther(query) ==
    LET b == query[1]
    IN  IF b = 39 \/ b = 34
        THEN [length |-> ScanQuote(query, 1, b, FALSE), thistype |-> TOKEN_QUOTE]
        ELSE IF IsDigit(b) THEN [length |-> ScanNumber(query), thistype |-> TOKEN_NUMBER]
        ELSE IF IsSpace(b) THEN [length |-> ScanSpace(query), thistype |-> TOKEN_WHITESPACE]
        ELSE IF IsLetter(b) THEN [length |-> ScanWord(query), thistype |-> TOKEN_WORD]
        ELSE [length |-> 0, thistype |-> TOKEN_OTHER]

\* scanToken(query) for a non-empty query: (length, thistype)
scanToken(query) ==
    LET b == query[1]
    IN  IF verbose /\ noclean THEN [length |-> Len(query), thistype |-> TOKEN_OTHER]
        ELSE IF b = 39 \/ b = 34
        THEN [length |-> ScanQuote(query, 1, b, FALSE), thistype |-> TOKEN_QUOTE]
        ELSE IF IsDigit(b) THEN [length |-> ScanNumber(query), thistype |-> TOKEN_NUMBER]
        ELSE IF IsSpace(b) THEN [length |-> ScanSpace(query), thistype |-> TOKEN_WHITESPACE]
        ELSE IF IsLetter(b) THEN [length |-> ScanWord(query), thistype |-> TOKEN_WORD]
        ELSE [length |-> 1, thistype |-> TOKEN_OTHER]

\* the token loop of cleanupQuery: strings.Join(qspace, "")
RECURSIVE JoinTokens(_)
JoinTokens(query) ==
    IF Len(query) = 0 THEN <<>>
    ELSE LET tok == scanToken(query)
             out == IF tok.thistype \in {TOKEN_WORD, TOKEN_OTHER} THEN Take(query, tok.length)
                    ELSE IF tok.thistype \in {TOKEN_NUMBER, TOKEN_QUOTE} THEN <<63>>
                    ELSE <<32>>
         IN  out \o JoinTokens(Drop(query, tok.length))

\* the route rewrite of cleanupQuery
RewriteRoute(tmp) ==
    LET parts == SplitN(tmp, 32, 5)
    IN  IF Len(parts) >= 5 /\ parts[2] = <<47, 42>> /\ parts[4] = <<42, 47>>
           /\ IndexByte(parts[3], 58) >= 0
        THEN parts[1] \o <<32, 47, 42, 32>> \o SplitN(parts[3], 58, 2)[2]
             \o <<32, 42, 47, 32>> \o parts[5]
        ELSE tmp

cleanupQuery(query) == RemoveAll(RewriteRoute(JoinTokens(query)), <<63, 44, 32>>)

\* ------------------------------------------------------------------------
\* Fingerprint formatter
\* ------------------------------------------------------------------------

\* an item of the format slice: an F_XXX int or a literal string
TagItem(t) == [isTag |-> TRUE, tag |-> t, str |-> <<>>]

StrItem(s) == [isTag |-> FALSE, tag |-> F_NONE, str |-> s]

\* strings.TrimSpace on ASCII text
RECURSIVE TrimLeft(_)
TrimLeft(s) == IF s # <<>> /\ IsSpace(s[1]) THEN TrimLeft(Drop(s, 1)) ELSE s

RECURSIVE TrimRight(_)
TrimRight(s) ==
    IF s # <<>> /\ IsSpace(s[Len(s)]) THEN TrimRight(Take(s, Len(s) - 1)) ELSE s

TrimSpace(s) == TrimRight(TrimLeft(s))

\* strings.ToLower on one ASCII character
ToLower(char) == IF char >= 65 /\ char <= 90 THEN char + 32 ELSE char

\* the switch of parseFormat on the lowered character after '#'
FormatTag(char) ==
    IF char = 115 THEN F_SOURCE
    ELSE IF char = 105 THEN F_SOURCEIP
    ELSE IF char = 114 THEN F_ROUTE
    ELSE IF char = 113 THEN F_QUERY
    ELSE F_NONE

\* the character loop of parseFormat and the final append of curstr
RECURSIVE FormatLoop(_, _, _, _)
FormatLoop(rest, is_special, curstr, items) ==
    IF rest = <<>>
    THEN IF curstr # <<>> THEN Append(items, StrItem(curstr)) ELSE items
    ELSE LET char == rest[1]
             tail == Drop(rest, 1)
             do_append == FormatTag(ToLower(char))
         IN  IF char = 35
             THEN IF is_special
                  THEN FormatLoop(tail, FALSE, curstr \o <<35>>, items)
                  ELSE FormatLoop(tail, TRUE, curstr, items)
             ELSE IF ~is_special
             THEN FormatLoop(tail, FALSE, curstr \o <<char>>, items)
             ELSE IF do_append = F_NONE
             THEN FormatLoop(tail, FALSE, curstr \o <<35, char>>, items)
             ELSE IF curstr # <<>>
             THEN FormatLoop(tail, FALSE, <<>>,
                             items \o <<StrItem(curstr), TagItem(do_append)>>)
             ELSE FormatLoop(tail, FALSE, <<>>, Append(items, TagItem(do_append)))

\* "#b:#k", the template parseFormat substitutes for an empty one
EmptyFallback == <<35, 98, 58, 35, 107>>

\* formatstr = strings.TrimSpace(formatstr); if formatstr == "" {...}
EffectiveTemplate(formatstr) ==
    IF TrimSpace(formatstr) = <<>> THEN EmptyFallback ELSE TrimSpace(formatstr)

\* the format slice after parseFormat(formatstr) on an empty slice
parseFormat(formatstr) == FormatLoop(EffectiveTemplate(formatstr), FALSE, <<>>, <<>>)

\* the format slice built by parseFormat from the -f default "#s:#q"
format == <<TagItem(F_SOURCE), StrItem(<<58>>), TagItem(F_QUERY)>>

\* faulty variant: the host: prefix of the route is kept
RouteText_KeepsHost(pdata) ==
    LET parts == SplitN(pdata, 32, 5)
    IN  IF Len(parts) >= 4 /\ parts[2] = <<47, 42>> /\ parts[4] = <<42, 47>>
        THEN parts[3]
        ELSE <<40, 117, 110, 107, 110, 111, 119, 110, 41, 32>> \o cleanupQuery(pdata)

\* the F_ROUTE case of formatQueryText
RouteText(pdata) ==
    LET parts == SplitN(pdata, 32, 5)
    IN  IF Len(parts) >= 4 /\ parts[2] = <<47, 42>> /\ parts[4] = <<42, 47>>
        THEN IF IndexByte(parts[3], 58) >= 0 THEN SplitN(parts[3], 58, 2)[2] ELSE parts[3]
        ELSE <<40, 117, 110, 107, 110, 111, 119, 110, 41, 32>> \o cleanupQuery(pdata)

\* what one item of the format slice adds to text
ItemText(rs, item, pdata) ==
    IF ~item.isTag THEN item.str
    ELSE IF item.tag = F_QUERY THEN (IF dirty THEN pdata ELSE cleanupQuery(pdata))
    ELSE IF item.tag = F_ROUTE THEN RouteText(pdata)
    ELSE IF item.tag = F_SOURCE THEN rs.hostPort
    ELSE rs.srcIP

RECURSIVE FormatItems(_, _, _)
FormatItems(rs, items, pdata) ==
    IF items = <<>> THEN <<>>
    ELSE ItemText(rs, Head(items), pdata) \o FormatItems(rs, Tail(items), pdata)

formatQueryText(rs, pdata) == FormatItems(rs, format, pdata)

\* ------------------------------------------------------------------------
\* Latency aggregates
\* ------------------------------------------------------------------------

\* a uint64 as four 16-bit limbs, most significant first
Limb == 65536

U64Zero == <<0, 0, 0, 0>>

\* uint64(n) for 0 <= n < 2^31
U64Of(n) == <<0, 0, n \div Limb, n % Limb>>

\* x + y in uint64: the carry out of the top limb is lost
U64Add(x, y) ==
    LET s4 == x[4] + y[4]
        s3 == x[3] + y[3] + (s4 \div Limb)
        s2 == x[2] + y[2] + (s3 \div Limb)
        s1 == x[1] + y[1] + (s2 \div Limb)
    IN  <<s1 % Limb, s2 % Limb, s3 % Limb, s4 % Limb>>

\* x < y in uint64
U64Less(x, y) ==
    \E k \in 1..4 : x[k] < y[k] /\ \A j \in 1..(k - 1) : x[j] = y[j]

\* x / n in uint64 for 0 < n < 2^15
U64Div(x, n) ==
    LET q1 == x[1] \div n
        r1 == x[1] % n
        q2 == (r1 * Limb + x[2]) \div n
        r2 == (r1 * Limb + x[2]) % n
        q3 == (r2 * Limb + x[3]) \div n
        r3 == (r2 * Limb + x[3]) % n
        q4 == (r3 * Limb + x[4]) \div n
    IN  <<q1, q2, q3, q4>>

\* float64(u) / 1000000 as the fraction nanos / perMilli
Millis(u) == [nanos |-> u, perMilli |-> 1000000]

\* "var counts, total, min, max, avg uint64 = 0, ...; has_min := false"
TimesStart == [counts |-> 0, total |-> U64Zero, min |-> U64Zero, max |-> U64Zero,
               has_min |-> FALSE]

\* one iteration of "for _, val := range *timings"
TimesStep(acc, val) ==
    IF val = U64Zero THEN acc
    ELSE [counts |-> acc.counts + 1,
          total |-> U64Add(acc.total, val),
          min |-> IF U64Less(val, acc.min) \/ ~acc.has_min THEN val ELSE acc.min,
          max |-> IF U64Less(acc.max, val) THEN val ELSE acc.max,
          has_min |-> TRUE]

\* the loop over the slots idx of timings in index order
RECURSIVE TimesLoop(_, _, _)
TimesLoop(timings, idx, acc) ==
    IF idx = {} THEN acc
    ELSE LET i == Min(idx)
         IN  TimesLoop(timings, idx \ {i}, TimesStep(acc, timings[i]))

\* calculateTimes(&timings); absent slots of timings are zero
calculateTimes(timings) ==
    LET acc == TimesLoop(timings, DOMAIN timings, TimesStart)
        avg == IF acc.counts > 0 THEN U64Div(acc.total, acc.counts) ELSE U64Zero
    IN  [fmin |-> Millis(acc.min), favg |-> Millis(avg), fmax |-> Millis(acc.max)]

\* ------------------------------------------------------------------------
\* Inputs: client endpoints and captured segment payloads
\* ------------------------------------------------------------------------

\* client endpoints "1:7" and "2:7" (ip:port of the non-server side)
Client1 == <<49, 58, 55>>

Client2 == <<50, 58, 55>>

Clients == {Client1, Client2}

\* a MySQL packet: 3-byte little-endian length, sequence number 0, payload
Pkt(payload) == <<Len(payload) % 256, (Len(payload) \div 256) % 256, 0, 0>> \o payload

qSelA == Pkt(<<COM_QUERY, 97, 61, 49>>)

qSelB == Pkt(<<COM_QUERY, 98>>)

qAttrB == Pkt(<<COM_QUERY, 0, 1, 98>>)

qParam == Pkt(<<COM_QUERY, 1, 1, 98>>)

qEmpty == Pkt(<<COM_QUERY>>)

qNoSetCount == Pkt(<<COM_QUERY, 0>>)

qNoText == Pkt(<<COM_QUERY, 0, 1>>)

cPing == Pkt(<<COM_PING>>)

cStmtExecute == Pkt(<<COM_STMT_EXECUTE, 98>>)

\* request segments: whole packets, a packet followed by another one, the two
\* halves of qSelA, and a header that declares length zero
RequestSegments ==
    {qSelA, qSelB, qAttrB, qParam, qEmpty, qNoSetCount, qNoText, cPing, cStmtExecute,
     qSelB \o cPing, cPing \o qSelB, Take(qSelA, 5), Drop(qSelA, 5),
     <<0, 0, 0, 0, COM_QUERY>>}

\* response segments: an OK packet and the first bytes of a longer packet
ResponseSegments == {<<7, 0, 0, 1, 0, 0, 0, 2, 0, 0, 0>>, <<5, 0, 0>>}

\* the slots rand.Intn(TIME_BUCKETS) is drawn from in the model
Slots == {0, TIME_BUCKETS - 1}

\* ------------------------------------------------------------------------
\* State
\* ------------------------------------------------------------------------

VARIABLES
    chmap,       \* chmap: client endpoint -> source
    qbuf,        \* qbuf: fingerprint text -> queryData
    queryCount,  \* queryCount
    times,       \* the global latency reservoir
    stats,       \* stats.packets.rcvd, .rcvd_sync, .desyncs, .streams
    clock,       \* the wall clock read by time.Now(), one tick per segment
    ev,          \* history: the segment handled by the last step and the
                 \* flow it found
    hist,        \* history: for every segment handled so far, its direction,
                 \* its endpoint, whether the request was recorded and whether
                 \* the response was paired
    arg,         \* the argument of the function applied in isolation
    res          \* its result, Nil before the call

traffic == <<chmap, qbuf, queryCount, times, stats, clock, ev, hist>>

vars == <<chmap, qbuf, queryCount, times, stats, clock, ev, hist, arg, res>>

\* a latency reservoir holds its non-zero slots; every other slot reads 0
EmptyTimes == <<>>

Slot(r, i) == IF i \in DOMAIN r THEN r[i] ELSE 0

SetSlot(r, i, v) == [j \in (DOMAIN r) \cup {i} |-> IF j = i THEN v ELSE r[j]]

\* &source{hostPort: src, srcIP: srcIP, synced: false}
NewSource(src) ==
    [hostPort |-> src, srcIP |-> Take(src, IndexByte(src, 58)), synced |-> FALSE,
     reqBuffer |-> Nil, respBuffer |-> Nil, reqSent |-> Nil, reqTimes |-> EmptyTimes,
     qBytes |-> 0, qData |-> Nil, qText |-> <<>>]

\* &queryData{}
NewQueryData == [count |-> 0, bytes |-> 0, times |-> EmptyTimes]

\* the package variables before the first segment
NoTraffic ==
    /\ chmap = <<>>
    /\ qbuf = <<>>
    /\ queryCount = 0
    /\ times = EmptyTimes
    /\ stats = [rcvd |-> 0, rcvd_sync |-> 0, desyncs |-> 0, streams |-> 0]
    /\ clock = 0
    /\ ev = [kind |-> "none", src |-> <<>>, data |-> <<>>, pre |-> NewSource(<<>>)]
    /\ hist = <<>>

Init == NoTraffic /\ arg = Nil /\ res = Nil

\* chmap[src], created on the first segment of the endpoint
Lookup(src) == IF src \in DOMAIN chmap THEN chmap[src] ELSE NewSource(src)

\* handlePacket up to the dispatch: the flow map, the stream and packet counters
Received(src) ==
    [stats EXCEPT !.rcvd = @ + 1,
                  !.rcvd_sync = IF Lookup(src).synced THEN @ + 1 ELSE @,
                  !.streams = IF src \in DOMAIN chmap THEN @ ELSE @ + 1]

\* faulty variant: storing one flow resets the buffers of the others
Store_ResetsOthers(src, rs) ==
    [c \in (DOMAIN chmap) \cup {src} |->
        IF c = src THEN rs
        ELSE [chmap[c] EXCEPT !.reqBuffer = Nil, !.respBuffer = Nil, !.reqSent = Nil]]

Store(src, rs) == [c \in (DOMAIN chmap) \cup {src} |-> IF c = src THEN rs ELSE chmap[c]]

\* ------------------------------------------------------------------------
\* processRequest
\* ------------------------------------------------------------------------

\* faulty variant: a pending response is never noticed
DesyncDetected_Never(rs) == FALSE

\* "if rs.respBuffer != nil": the flow still holds unpaired response bytes
DesyncDetected(rs) == rs.respBuffer # Nil

\* faulty variant: the desync branch changes nothing on the flow
DropOnDesync_Noop(rs) == rs

\* faulty variant: the desync branch keeps the buffered response bytes
DropOnDesync_KeepsBuffer(rs) == [rs EXCEPT !.synced = FALSE]

\* faulty variant: the desync branch forgets to clear synced
DropOnDesync_KeepsSynced(rs) == [rs EXCEPT !.respBuffer = Nil]

\* the desync branch: rs.respBuffer = nil; rs.synced = false
DropOnDesync(rs) == [rs EXCEPT !.respBuffer = Nil, !.synced = FALSE]

\* rs.reqBuffer = data, then carvePacket(&rs.reqBuffer)
LoadRequest(rs, data) == [rs EXCEPT !.reqBuffer = data]

\* the flow when carvePacket is called
AtFraming(rs, data) ==
    LoadRequest(IF DesyncDetected(rs) THEN DropOnDesync(rs) ELSE rs, data)

\* faulty variant: the command test is inverted
SkippedUnsynced_Inverted(rs, pType) == ~rs.synced /\ pType = COM_QUERY

\* "if !rs.synced { if pType != COM_QUERY {...; return} ...}"
SkippedUnsynced(rs, pType) == ~rs.synced /\ pType # COM_QUERY

\* faulty variant: the flow is never marked synced
MarkSynced_Skipped(rs) == rs

\* rs.synced = true
MarkSynced(rs) == [rs EXCEPT !.synced = TRUE]

\* faulty variant: only the response buffer is cleared
ClearBuffers_ResponseOnly(rs) == [rs EXCEPT !.respBuffer = Nil]

\* rs.reqBuffer, rs.respBuffer = nil, nil
ClearBuffers(rs) == [rs EXCEPT !.reqBuffer = Nil, !.respBuffer = Nil]

\* faulty variant: the decoder's error is ignored and the raw payload recorded
DecodeCommand_IgnoresError(pType, pData) ==
    [err |-> FALSE,
     query |-> IF pType = COM_QUERY /\ ~parseComQuery(pData).err
               THEN parseComQuery(pData).query ELSE pData,
     panic |-> FALSE]

\* the payload decoding of processRequest: COM_QUERY goes through
\* parseComQuery, every other command uses its data as-is
DecodeCommand(pType, pData) ==
    IF pType = COM_QUERY THEN parseComQuery(pData)
    ELSE [err |-> FALSE, query |-> pData, panic |-> FALSE]

\* rs.reqSent = &tnow; rs.qText, rs.qData, rs.qBytes = text, qdata, plen
Remember(rs, tnow, text, plen) ==
    [rs EXCEPT !.reqSent = Some(tnow), !.qText = text, !.qData = Some(text),
               !.qBytes = plen]

\* faulty variant: the count of the fingerprint is set to 1
CountQuery_Resets(q, text, plen) ==
    LET old == IF text \in DOMAIN q THEN q[text] ELSE NewQueryData
    IN  [t \in (DOMAIN q) \cup {text} |->
            IF t = text THEN [old EXCEPT !.count = 1, !.bytes = @ + plen]
            ELSE q[t]]

\* qbuf after "qdata.count++; qdata.bytes += plen" on qbuf[text]
CountQuery(q, text, plen) ==
    LET old == IF text \in DOMAIN q THEN q[text] ELSE NewQueryData
    IN  [t \in (DOMAIN q) \cup {text} |->
            IF t = text THEN [old EXCEPT !.count = @ + 1, !.bytes = @ + plen]
            ELSE q[t]]

\* processRequest(rs, data) at time tnow: the flow afterwards, whether the
\* request was recorded, and the fingerprint and payload length recorded
processRequest(rs, data, tnow) ==
    LET fr == AtFraming(rs, data)
        cp == carvePacket(fr.reqBuffer)
        carved == [fr EXCEPT !.reqBuffer = cp.buf]
        synced == MarkSynced(carved)
        dec == DecodeCommand(cp.pType, cp.data)
        text == formatQueryText(synced, dec.query)
        plen == Len(cp.data)
    IN  IF cp.err
        THEN [rs |-> carved, recorded |-> FALSE, text |-> <<>>, plen |-> 0]
        ELSE IF SkippedUnsynced(carved, cp.pType)
        THEN [rs |-> ClearBuffers(carved), recorded |-> FALSE, text |-> <<>>, plen |-> 0]
        ELSE IF dec.err
        THEN [rs |-> synced, recorded |-> FALSE, text |-> <<>>, plen |-> 0]
        ELSE [rs |-> Remember(synced, tnow, text, plen), recorded |-> TRUE,
              text |-> text, plen |-> plen]

\* handlePacket for a client->server segment
HandleRequest(src, data) ==
    /\ LET rs == Lookup(src)
           r == processRequest(rs, data, clock + 1)
       IN  /\ chmap' = Store(src, r.rs)
           /\ stats' = [Received(src) EXCEPT
                            !.desyncs = IF DesyncDetected(rs) THEN @ + 1 ELSE @]
           /\ queryCount' = IF r.recorded THEN queryCount + 1 ELSE queryCount
           /\ qbuf' = IF r.recorded THEN CountQuery(qbuf, r.text, r.plen) ELSE qbuf
           /\ hist' = Append(hist, [kind |-> "request", src |-> src,
                                    recorded |-> r.recorded, paired |-> FALSE])
    /\ clock' = clock + 1
    /\ ev' = [kind |-> "request", src |-> src, data |-> data, pre |-> Lookup(src)]
    /\ UNCHANGED <<times, arg, res>>

\* a request segment of a capture of at most MaxPackets segments
Request(src, data) == stats.rcvd < MaxPackets /\ HandleRequest(src, data)

\* ------------------------------------------------------------------------
\* processResponse
\* ------------------------------------------------------------------------

\* faulty variant: the new segment replaces the buffered response bytes
Accumulate_Overwrites(rs, data) == [rs EXCEPT !.respBuffer = data]

\* the accumulation of response data
Accumulate(rs, data) ==
    [rs EXCEPT !.respBuffer = IF @ = Nil THEN data ELSE @ \o data]

\* "if rs.reqSent == nil": no request is outstanding
NoRequestSent(rs) == rs.reqSent = Nil

\* rs.qData.bytes += uint64(len(data)), when rs.qData != nil
AddBytes(q, rs, data) ==
    IF rs.qData = Nil THEN q
    ELSE [q EXCEPT ![rs.qData[1]].bytes = @ + Len(data)]

\* rs.qData.times[randn] = reqtime, when rs.qData != nil
AddQueryTime(q, rs, randn, reqtime) ==
    IF rs.qData = Nil THEN q
    ELSE [q EXCEPT ![rs.qData[1]].times = SetSlot(@, randn, reqtime)]

\* faulty variant: the request timestamp survives the pairing
Paired_KeepsTimestamp(rs, randn, reqtime) ==
    [rs EXCEPT !.reqTimes = SetSlot(@, randn, reqtime), !.respBuffer = Nil]

\* faulty variant: the flow's sample goes to the slot after the drawn one
Paired_NextSlot(rs, randn, reqtime) ==
    [rs EXCEPT !.reqTimes = SetSlot(@, (randn + 1) % TIME_BUCKETS, reqtime),
               !.reqSent = Nil, !.respBuffer = Nil]

\* the pairing branch on the flow: the sample, then rs.reqSent = nil and
\* rs.respBuffer = nil
Paired(rs, randn, reqtime) ==
    [rs EXCEPT !.reqTimes = SetSlot(@, randn, reqtime), !.reqSent = Nil,
               !.respBuffer = Nil]

\* handlePacket for a server->client segment; randn is rand.Intn(TIME_BUCKETS)
HandleResponse(src, data) ==
    /\ LET rs == Lookup(src)
           acc == Accumulate(rs, data)
           reqtime == (clock + 1) - acc.reqSent[1]
       IN  IF NoRequestSent(acc)
           THEN /\ chmap' = Store(src, acc)
                /\ qbuf' = AddBytes(qbuf, acc, data)
                /\ UNCHANGED times
           ELSE \E randn \in Slots :
                /\ chmap' = Store(src, Paired(acc, randn, reqtime))
                /\ times' = SetSlot(times, randn, reqtime)
                /\ qbuf' = AddBytes(AddQueryTime(qbuf, acc, randn, reqtime), acc, data)
    /\ hist' = Append(hist, [kind |-> "response", src |-> src, recorded |-> FALSE,
                             paired |-> ~NoRequestSent(Lookup(src))])
    /\ stats' = Received(src)
    /\ clock' = clock + 1
    /\ ev' = [kind |-> "response", src |-> src, data |-> data, pre |-> Lookup(src)]
    /\ UNCHANGED <<queryCount, arg, res>>

\* a response segment of a capture of at most MaxPackets segments
Response(src, data) == stats.rcvd < MaxPackets /\ HandleResponse(src, data)

\* the capture of one connection: every segment belongs to Client1
Next ==
    \/ \E data \in RequestSegments : Request(Client1, data)
    \/ \E data \in ResponseSegments : Response(Client1, data)

Spec == Init /\ [][Next]_vars

\* ------------------------------------------------------------------------
\* Vocabulary of the properties
\* ------------------------------------------------------------------------

\* the 24-bit little-endian length a segment's first three bytes declare
DeclaredLen(data) == data[1] + data[2] * 256 + data[3] * 65536

\* the segment starts with one whole MySQL packet
WholePacket(data) ==
    /\ Len(data) >= 5
    /\ DeclaredLen(data) # 0
    /\ Len(data) >= DeclaredLen(data) + 4

\* the command byte and the command payload of that first packet
CommandByte(data) == data[5]

CommandPayload(data) == SubSeq(data, 6, DeclaredLen(data) + 4)

\* the segment is exactly one COM_QUERY packet whose payload decodes
ExactComQuery(data) ==
    /\ WholePacket(data)
    /\ Len(data) = DeclaredLen(data) + 4
    /\ CommandByte(data) = COM_QUERY
    /\ ~parseComQuery(CommandPayload(data)).err

\* the flow of the segment handled by this step, before and after it
PreFlow == Lookup(ev'.src)

PostFlow == chmap'[ev'.src]

RequestStep == ev'.kind = "request"

ResponseStep == ev'.kind = "response"

\* the last-query context of a flow
Context(rs) == <<rs.qText, rs.qData, rs.qBytes>>

\* two reservoirs agree on every slot but i
SameExcept(r1, r2, i) ==
    \A j \in ((DOMAIN r1) \cup (DOMAIN r2)) \ {i} : Slot(r1, j) = Slot(r2, j)

\* ------------------------------------------------------------------------
\* Properties
\* ------------------------------------------------------------------------

\* C1: from every reachable state of a flow, a request segment that is
\* exactly one complete COM_QUERY packet with a decodable payload leaves the
\* flow synced, with the outstanding-request timestamp set, and increments
\* the global query count by exactly one.
C1_ComQueryResyncs ==
    [][(RequestStep /\ ExactComQuery(ev'.data)) =>
          /\ PostFlow.synced
          /\ PostFlow.reqSent # Nil
          /\ queryCount' = queryCount + 1]_vars

\* a COM_QUERY has just re-synced a flow that was synced and held unpaired
\* response bytes
C1_Witness ==
    /\ ev.kind = "request"
    /\ ExactComQuery(ev.data)
    /\ ev.pre.synced
    /\ ev.pre.respBuffer # Nil
    /\ chmap[ev.src].synced
    /\ chmap[ev.src].reqSent # Nil

\* C2: a request segment that finds the response buffer non-empty increments
\* the desync counter by exactly one, discards the buffered response bytes
\* and the previously buffered request bytes (the request buffer then holds
\* bytes of the new segment only) and clears synced before the segment is
\* framed (the flow is synced afterwards only if this very segment frames a
\* COM_QUERY); a request that finds the response buffer empty leaves the
\* desync counter unchanged.
C2_DesyncOnPendingResponse ==
    [][RequestStep =>
          IF PreFlow.respBuffer # <<>>
          THEN /\ stats'.desyncs = stats.desyncs + 1
               /\ PostFlow.respBuffer = <<>>
               /\ \E k \in 0..Len(ev'.data) : PostFlow.reqBuffer = Drop(ev'.data, k)
               /\ ~WholePacket(ev'.data) => PostFlow.reqBuffer = ev'.data
               /\ PostFlow.synced =>
                     (WholePacket(ev'.data) /\ CommandByte(ev'.data) = COM_QUERY)
          ELSE stats'.desyncs = stats.desyncs]_vars

\* a request has just found a synced flow holding both response bytes and
\* earlier request bytes, and did not frame a packet
C2_Witness ==
    /\ ev.kind = "request"
    /\ ev.pre.respBuffer # Nil
    /\ ev.pre.reqBuffer # Nil
    /\ ev.pre.synced
    /\ ~WholePacket(ev.data)
    /\ ~chmap[ev.src].synced
    /\ stats.desyncs = 1

\* C3: the desync counter never decreases, and a flow's synced flag changes
\* from false to true only in a request step on that flow whose segment
\* frames a complete packet with command byte COM_QUERY.
C3_SyncOnlyOnComQuery ==
    [][/\ stats'.desyncs >= stats.desyncs
       /\ \A c \in DOMAIN chmap' :
             (~Lookup(c).synced /\ chmap'[c].synced) =>
                /\ RequestStep
                /\ ev'.src = c
                /\ WholePacket(ev'.data)
                /\ CommandByte(ev'.data) = COM_QUERY]_vars

\* a flow that an earlier desync had left unsynced has just been synced
C3_Witness ==
    /\ ev.kind = "request"
    /\ ~ev.pre.synced
    /\ ev.pre.respBuffer = Nil
    /\ stats.desyncs > 0
    /\ chmap[ev.src].synced

\* C4: the outstanding-request timestamp is set if and only if a COM_QUERY
\* has been recorded on the flow and no response segment has followed it: a
\* step leaves the timestamp set exactly when it records a COM_QUERY on the
\* flow, or the timestamp was set and the step is not a response segment of
\* the flow.
C4_TimestampIffComQueryOutstanding ==
    [][\A c \in DOMAIN chmap' :
          (chmap'[c].reqSent # Nil) <=>
             \/ /\ RequestStep
                /\ ev'.src = c
                /\ WholePacket(ev'.data)
                /\ CommandByte(ev'.data) = COM_QUERY
                /\ queryCount' = queryCount + 1
             \/ /\ Lookup(c).reqSent # Nil
                /\ ~(ResponseStep /\ ev'.src = c)]_vars

\* C5: when the bytes of one complete COM_QUERY packet reach a flow with an
\* empty request buffer split over two consecutive request segments, the
\* second segment records the query exactly once: query count +1, timestamp
\* set, and the fingerprint of the full query text counted.
C5_SplitRequestReassembled ==
    [][(/\ ev.kind = "request"
        /\ RequestStep
        /\ ev'.src = ev.src
        /\ ev.pre.reqBuffer = Nil
        /\ ev.data # <<>>
        /\ ev'.data # <<>>
        /\ ~WholePacket(ev.data)
        /\ ExactComQuery(ev.data \o ev'.data)) =>
          /\ queryCount' = queryCount + 1
          /\ PostFlow.reqSent # Nil
          /\ PostFlow.qText =
                formatQueryText(PostFlow,
                    parseComQuery(CommandPayload(ev.data \o ev'.data)).query)
          /\ PostFlow.qText \in DOMAIN qbuf'
          /\ qbuf'[PostFlow.qText].count =
                (IF PostFlow.qText \in DOMAIN qbuf THEN qbuf[PostFlow.qText].count ELSE 0) + 1]_vars

\* C6: a command other than COM_QUERY framed on a synced flow (one that
\* holds no unpaired response bytes) is ignored: the query count, the
\* fingerprint table and the flow's last-query context are unchanged, and
\* the flow is not desynchronized.
C6_OtherCommandsIgnored ==
    [][(/\ RequestStep
        /\ PreFlow.synced
        /\ PreFlow.respBuffer = Nil
        /\ WholePacket(ev'.data)
        /\ CommandByte(ev'.data) # COM_QUERY) =>
          /\ queryCount' = queryCount
          /\ qbuf' = qbuf
          /\ Context(PostFlow) = Context(PreFlow)
          /\ PostFlow.synced
          /\ stats'.desyncs = stats.desyncs]_vars

\* C7: on an unsynced flow, a framed packet whose command byte is not
\* COM_QUERY clears the request and the response buffer and leaves synced
\* false; the timestamp, the query count, the fingerprint table and the
\* last-query context are unchanged.
C7_UnsyncedSkipsOtherCommands ==
    [][(/\ RequestStep
        /\ ~PreFlow.synced
        /\ WholePacket(ev'.data)
        /\ CommandByte(ev'.data) # COM_QUERY) =>
          /\ PostFlow.reqBuffer = Nil
          /\ PostFlow.respBuffer = Nil
          /\ ~PostFlow.synced
          /\ PostFlow.reqSent = PreFlow.reqSent
          /\ queryCount' = queryCount
          /\ qbuf' = qbuf
          /\ Context(PostFlow) = Context(PreFlow)]_vars

\* an unsynced flow holding response bytes has just skipped a non-COM_QUERY
\* packet that was followed by further request bytes
C7_Witness ==
    /\ ev.kind = "request"
    /\ ~ev.pre.synced
    /\ ev.pre.respBuffer # Nil
    /\ WholePacket(ev.data)
    /\ CommandByte(ev.data) # COM_QUERY
    /\ Len(ev.data) > DeclaredLen(ev.data) + 4
    /\ chmap[ev.src].reqBuffer = Nil

C9_PairingWritesOneSample ==
    [][(ResponseStep /\ PreFlow.reqSent # Nil) =>
          /\ \E i \in DOMAIN PostFlow.reqTimes :
                LET sample == clock' - PreFlow.reqSent[1]
                IN  /\ i \in 0..(TIME_BUCKETS - 1)
                    /\ Slot(PostFlow.reqTimes, i) = sample
                    /\ SameExcept(PreFlow.reqTimes, PostFlow.reqTimes, i)
                    /\ Slot(times', i) = sample
                    /\ SameExcept(times, times', i)
                    /\ DOMAIN qbuf' = DOMAIN qbuf
                    /\ \A t \in DOMAIN qbuf :
                          IF PreFlow.qData = Some(t)
                          THEN /\ Slot(qbuf'[t].times, i) = sample
                               /\ SameExcept(qbuf[t].times, qbuf'[t].times, i)
                               /\ qbuf'[t].bytes = qbuf[t].bytes + Len(ev'.data)
                          ELSE qbuf'[t] = qbuf[t]
          /\ PostFlow.reqSent = Nil
          /\ PostFlow.respBuffer = Nil]_vars

\* a second pairing has just written a sample into another slot than the
\* first one
C9_Witness ==
    /\ ev.kind = "response"
    /\ ev.pre.reqSent # Nil
    /\ ev.pre.qData # Nil
    /\ chmap[ev.src].reqSent = Nil
    /\ Cardinality(DOMAIN times) = 2
    /\ Cardinality(DOMAIN chmap[ev.src].reqTimes) = 2

\* C10: a response segment that finds no timestamp set is appended to the
\* response buffer and, when a last-query context exists, its length is
\* added to that query's cumulative bytes; every latency reservoir, the
\* synced flag, the query count, the per-fingerprint counts and the desync
\* counter are unchanged.
C10_UnpairedResponseAccumulates ==
    [][(ResponseStep /\ PreFlow.reqSent = Nil) =>
          /\ PostFlow.respBuffer = PreFlow.respBuffer \o ev'.data
          /\ DOMAIN qbuf' = DOMAIN qbuf
          /\ \A t \in DOMAIN qbuf :
                /\ qbuf'[t].count = qbuf[t].count
                /\ qbuf'[t].times = qbuf[t].times
                /\ qbuf'[t].bytes =
                      IF PreFlow.qData = Some(t) THEN qbuf[t].bytes + Len(ev'.data)
                      ELSE qbuf[t].bytes
          /\ times' = times
          /\ PostFlow.reqTimes = PreFlow.reqTimes
          /\ PostFlow.synced = PreFlow.synced
          /\ queryCount' = queryCount
          /\ stats'.desyncs = stats.desyncs]_vars

\* a second unpaired response segment has just been appended on a flow that
\* remembers its last query
C10_Witness ==
    /\ ev.kind = "response"
    /\ ev.pre.reqSent = Nil
    /\ ev.pre.respBuffer # Nil
    /\ ev.pre.qData # Nil
    /\ chmap[ev.src].respBuffer = ev.pre.respBuffer \o ev.data

\* ------------------------------------------------------------------------
\* Pipelined traffic: a longer capture of one connection over few segments
\* ------------------------------------------------------------------------

MaxPipelinePackets == 6

PipelineRequests == {qSelA, cPing}

PipelineResponses == {<<7, 0, 0, 1, 0, 0, 0, 2, 0, 0, 0>>}

PipelineRequest(data) ==
    stats.rcvd < MaxPipelinePackets /\ HandleRequest(Client1, data)

PipelineResponse(data) ==
    stats.rcvd < MaxPipelinePackets /\ HandleResponse(Client1, data)

NextPipeline ==
    \/ \E data \in PipelineRequests : PipelineRequest(data)
    \/ \E data \in PipelineResponses : PipelineResponse(data)

SpecPipeline == Init /\ [][NextPipeline]_vars

\* the segments handled so far end with two recorded requests with no
\* response between them, followed by two or more response segments
PipelinedBefore ==
    \E i \in 1..Len(hist) :
        /\ Len(hist) >= i + 3
        /\ hist[i].kind = "request" /\ hist[i].recorded
        /\ hist[i + 1].kind = "request" /\ hist[i + 1].recorded
        /\ \A j \in (i + 2)..Len(hist) : hist[j].kind = "response"

MaxBufLen == 7

FramerBytes == {0, 1, 2, 3}

FramerBuffers == UNION {[1..n -> FramerBytes] : n \in 0..MaxBufLen}

InitFramer == NoTraffic /\ arg \in FramerBuffers /\ res = Nil

\* pType, data, err := carvePacket(&buf)
ApplyCarvePacket ==
    /\ res = Nil
    /\ res' = Some(carvePacket(arg))
    /\ UNCHANGED <<traffic, arg>>

NextFramer == ApplyCarvePacket

SpecFramer == InitFramer /\ [][NextFramer]_vars

\* C12: the framer reports incomplete and leaves the buffer unchanged when
\* the buffer has fewer than 5 bytes, or its header length L is zero, or it
\* holds fewer than L + 4 bytes; for every other buffer it succeeds.
C12_IncompleteIffShort ==
    res # Nil =>
        IF \/ Len(arg) < 5
           \/ DeclaredLen(arg) = 0
           \/ Len(arg) < DeclaredLen(arg) + 4
        THEN res[1].err /\ res[1].buf = arg
        ELSE ~res[1].err

\* a buffer with a command byte and a nonzero header length whose payload
\* has not fully arrived
C12_Witness ==
    /\ res # Nil
    /\ Len(arg) >= 5
    /\ DeclaredLen(arg) # 0
    /\ Len(arg) < DeclaredLen(arg) + 4
    /\ res[1].err
    /\ res[1].buf = arg

\* C13: on success the framer returns command byte B[4], payload
\* B[5 .. L+4) of length L - 1 and the buffer B[L+4 ..]; header, command
\* byte, payload and remaining buffer concatenate back to B; and the result
\* is the same for every value of the sequence number byte.
C13_SuccessSplitsBuffer ==
    (res # Nil /\ ~res[1].err) =>
        LET B == arg
            L == DeclaredLen(arg)
            r == res[1]
        IN  /\ r.pType = B[5]
            /\ r.data = SubSeq(B, 6, L + 4)
            /\ Len(r.data) = L - 1
            /\ r.buf = Drop(B, L + 4)
            /\ Take(B, 4) \o <<r.pType>> \o r.data \o r.buf = B
            /\ \A seq \in 0..255 : carvePacket([B EXCEPT ![4] = seq]) = r

\* a packet with a non-empty payload and bytes of the next packet behind it
C13_Witness ==
    /\ res # Nil
    /\ ~res[1].err
    /\ Len(res[1].data) > 0
    /\ Len(res[1].buf) > 0

\* ------------------------------------------------------------------------
\* The COM_QUERY payload decoder applied to one payload
\* ------------------------------------------------------------------------

MaxPayloadLen == 4

DecoderBytes == {0, 1, 31, 32, 97, 251, 252, 255}

DecoderPayloads == UNION {[1..n -> DecoderBytes] : n \in 0..MaxPayloadLen}

InitDecoder == NoTraffic /\ arg \in DecoderPayloads /\ res = Nil

\* query, err := parseComQuery(pData)
ApplyParseComQuery ==
    /\ res = Nil
    /\ res' = Some(parseComQuery(arg))
    /\ UNCHANGED <<traffic, arg>>

NextDecoder == ApplyParseComQuery

SpecDecoder == InitDecoder /\ [][NextDecoder]_vars

\* C14: for a payload in the query-attribute form (first byte in
\* 0x00..0x1F) the decoder returns exactly the bytes after the
\* length-encoded parameter_set_count when parameter_count is zero and at
\* least one byte follows, whatever parameter_set_count is; when
\* parameter_count is nonzero, or parameter_set_count or the query text is
\* missing, or the payload is empty, it returns an error and no query.
C14_AttributeFormDecoded ==
    (res # Nil /\ (arg = <<>> \/ arg[1] < 32)) =>
        LET r == res[1]
            psc == LengthEncodedInt(Drop(arg, 1))
        IN  /\ ~r.panic
            /\ IF /\ arg # <<>>
                  /\ arg[1] = 0
                  /\ Len(arg) >= 2
                  /\ ~psc.panic
                  /\ Len(arg) > 1 + psc.n
               THEN ~r.err /\ r.query = Drop(arg, 1 + psc.n)
               ELSE r.err /\ r.query = Nil

\* C15: every non-empty payload whose first byte lies outside 0x00..0x1F
\* and outside 0xFB..0xFE is returned whole as the query text, without
\* error.
C15_LegacyFormReturnedWhole ==
    (res # Nil /\ arg # <<>> /\ arg[1] >= 32 /\ ~(arg[1] \in 251..254)) =>
        /\ ~res[1].err
        /\ ~res[1].panic
        /\ res[1].query = arg

\* ------------------------------------------------------------------------
\* The response decoder applied to one accumulated response buffer
\* ------------------------------------------------------------------------

MaxResponsePackets == 2

\* payloads of server packets: OK with and without counts, ERR with and
\* without SQLSTATE, EOF, a column count, a column definition and rows
okPlain == <<0, 0, 0, 2, 0, 0, 0>>

okCounts == <<0, 1, 2, 2, 0, 1, 0>>

errState == <<255, 21, 4, 35, 50, 56, 48, 48, 48, 120>>

errShort == <<255, 21, 4, 120>>

eofPacket == <<254, 0, 0, 2, 0>>

oneColumn == <<1>>

columnDefA == <<3, 100, 101, 102, 0, 1, 116, 1, 116, 1, 97, 1, 97, 12>>

rowX == <<1, 120>>

rowNull == <<251>>

ResponsePayloads ==
    {okPlain, okCounts, errState, errShort, eofPacket, oneColumn, columnDefA,
     rowX, rowNull}

RECURSIVE Frames(_)
Frames(payloads) ==
    IF payloads = <<>> THEN <<>>
    ELSE Pkt(payloads[1]) \o Frames(Drop(payloads, 1))

ResponseBuffers ==
    {Frames(ps) : ps \in UNION {[1..n -> ResponsePayloads] : n \in 1..MaxResponsePackets}}

InitDisplay ==
    /\ NoTraffic
    /\ arg \in [buf : ResponseBuffers, showRows : BOOLEAN]
    /\ res = Nil

\* the result text of displayQueryResult(..., rs.respBuffer, ..., showRows)
ApplyDisplayQueryResult ==
    /\ res = Nil
    /\ res' = Some(DisplayedResult(arg.buf, arg.showRows))
    /\ UNCHANGED <<traffic, arg>>

NextDisplay == ApplyDisplayQueryResult

SpecDisplay == InitDisplay /\ [][NextDisplay]_vars

\* the kinds of text that report a result set
ResultSetKinds == {"ResultSet", "Result set with 0 columns", "Incomplete result set"}

\* C16: the response decoder classifies the accumulated response bytes by
\* the first payload byte of the first framed packet, the byte after the
\* 4-byte header: 0x00 is reported as OK, 0xFF as ERR, 0xFE with a short
\* payload as EOF and any other byte as a result set.
C16_ClassifiedByFirstPayloadByte ==
    res # Nil =>
        LET first == arg.buf[5]
            kind == res[1].kind
        IN  /\ first = MYSQL_OK_PACKET => kind = "OK"
            /\ first = MYSQL_ERR_PACKET => kind = "ERROR"
            /\ (first = MYSQL_EOF_PACKET /\ DeclaredLen(arg.buf) < 9) => kind = "EOF"
            /\ first \notin {MYSQL_OK_PACKET, MYSQL_ERR_PACKET, MYSQL_EOF_PACKET}
                   => kind \in ResultSetKinds

\* ------------------------------------------------------------------------
\* The OK and ERR payload decoders applied to one payload
\* ------------------------------------------------------------------------

MaxOKTail == 6

OKBytes == {0, 1, 2, 252}

\* an OK byte followed by up to MaxOKTail bytes
OKPayloads == {<<MYSQL_OK_PACKET>> \o t : t \in UNION {[1..n -> OKBytes] : n \in 0..MaxOKTail}}

InitOK == NoTraffic /\ arg \in OKPayloads /\ res = Nil

\* parseOKPacket(data)
ApplyParseOKPacket ==
    /\ res = Nil
    /\ res' = Some(parseOKPacket(arg))
    /\ UNCHANGED <<traffic, arg>>

NextOK == ApplyParseOKPacket

SpecOK == InitOK /\ [][NextOK]_vars

\* the fields of a payload laid out as an OK packet: affected rows and last
\* insert id as complete length-encoded integers, then either nothing or
\* at least the 2-byte status flags and the 2-byte warnings
OKFields(data) ==
    LET a == LengthEncodedInt(Drop(data, 1))
        l == LengthEncodedInt(Drop(data, 1 + a.n))
        pos == 1 + a.n + l.n
    IN  [wellFormed |-> /\ ~a.panic /\ a.n > 0
                        /\ ~l.panic /\ l.n > 0
                        /\ (Len(data) = pos \/ Len(data) >= pos + 4),
         affected |-> a.num,
         insertId |-> l.num,
         hasWarnings |-> Len(data) >= pos + 4,
         warnings |-> IF Len(data) >= pos + 4
                      THEN data[pos + 3] + data[pos + 4] * 256 ELSE 0]

\* C17: for every OK payload the decoded text mentions the affected-row
\* count if and only if it is nonzero, the last-insert-id if and only if it
\* is nonzero, and the warning count when the warnings field is present
\* and nonzero.
C17_OKMentionsNonzeroCounts ==
    (res # Nil /\ OKFields(arg).wellFormed) =>
        LET f == OKFields(arg)
            r == res[1]
        IN  /\ r.kind = "OK"
            /\ r.affected = (IF f.affected # 0 THEN Some(f.affected) ELSE Nil)
            /\ r.insertId = (IF f.insertId # 0 THEN Some(f.insertId) ELSE Nil)
            /\ (f.hasWarnings /\ f.warnings # 0) => r.warnings = Some(f.warnings)

MaxERRTail == 9

\* 35 is '#', 120 is 'x'
ERRBytes == {0, 35, 120}

\* an ERR byte followed by up to MaxERRTail bytes
ERRPayloads == {<<MYSQL_ERR_PACKET>> \o t : t \in UNION {[1..n -> ERRBytes] : n \in 0..MaxERRTail}}

InitERR == NoTraffic /\ arg \in ERRPayloads /\ res = Nil

\* parseErrorPacket(data)
ApplyParseErrorPacket ==
    /\ res = Nil
    /\ res' = Some(parseErrorPacket(arg))
    /\ UNCHANGED <<traffic, arg>>

NextERR == ApplyParseErrorPacket

SpecERR == InitERR /\ [][NextERR]_vars

\* a payload laid out as an ERR packet: the 2-byte code, then either the
\* '#' marker with 5 SQLSTATE bytes or no marker, then the message
ERRWellFormed(data) ==
    /\ Len(data) >= 3
    /\ (Len(data) >= 4 /\ data[4] = 35) => Len(data) >= 9

ERRHasMarker(data) == Len(data) >= 4 /\ data[4] = 35

\* C18: for every ERR payload the decoded text contains the error code
\* b1 + 256*b2, the SQLSTATE exactly when the '#' marker is present, and
\* the remaining bytes as the message; no input makes the decoder read
\* outside the payload.
C18_ERRShowsCodeStateMessage ==
    res # Nil =>
        /\ ~res[1].panic
        /\ ERRWellFormed(arg) =>
               /\ res[1].kind = "ERROR"
               /\ res[1].code = Some(arg[2] + 256 * arg[3])
               /\ res[1].sqlState =
                      (IF ERRHasMarker(arg) THEN Some(SubSeq(arg, 5, 9)) ELSE Nil)
               /\ res[1].message =
                      Some(IF ERRHasMarker(arg) THEN Drop(arg, 9) ELSE Drop(arg, 3))

\* ------------------------------------------------------------------------
\* The result-set decoder applied to the packets of one result set
\* ------------------------------------------------------------------------

MaxColumns == 2

MaxRows == 2

\* the name of column k: "a", "bb", "c", "dd", ...
ColumnName(k) == IF k % 2 = 1 THEN <<96 + k>> ELSE <<96 + k, 96 + k>>

\* a row value: NULL, the empty string or "x"
Cells == {[isNull |-> TRUE, val |-> <<>>], [isNull |-> FALSE, val |-> <<>>],
          [isNull |-> FALSE, val |-> <<120>>]}

\* a result set: its column names, its rows, whether an EOF packet follows
\* the column definitions, whether the rows end with ERR instead of EOF,
\* and the show_rows flag the decoder is called with
ResultSets ==
    UNION {[names : {[k \in 1..n |-> ColumnName(k)]},
            rows : UNION {[1..r -> [1..n -> Cells]] : r \in 0..MaxRows},
            midEOF : BOOLEAN, endERR : BOOLEAN, showRows : BOOLEAN]
           : n \in 1..MaxColumns}

\* a string of fewer than 251 bytes as a length-encoded string
LenStr(v) == <<Len(v)>> \o v

\* a column-definition packet: catalog "def", schema "", table "t",
\* org_table "t", name, org_name, then the fixed-length fields marker
ColumnDefPacket(name) ==
    <<3, 100, 101, 102, 0, 1, 116, 1, 116>> \o LenStr(name) \o LenStr(name) \o <<12>>

RECURSIVE RowPacket(_)
RowPacket(row) ==
    IF row = <<>> THEN <<>>
    ELSE (IF row[1].isNull THEN <<251>> ELSE LenStr(row[1].val))
             \o RowPacket(Drop(row, 1))

\* the payloads collectAllResponsePackets returns for the result set
ResultSetPackets(rset) ==
    <<<<Len(rset.names)>>>>
        \o [k \in 1..Len(rset.names) |-> ColumnDefPacket(rset.names[k])]
        \o (IF rset.midEOF THEN <<eofPacket>> ELSE <<>>)
        \o [k \in 1..Len(rset.rows) |-> RowPacket(rset.rows[k])]
        \o <<IF rset.endERR THEN errState ELSE eofPacket>>

InitResultSet == NoTraffic /\ arg \in ResultSets /\ res = Nil

\* parseResultSetFull(packets, showRows)
ApplyParseResultSetFull ==
    /\ res = Nil
    /\ res' = Some(parseResultSetFull(ResultSetPackets(arg), arg.showRows))
    /\ UNCHANGED <<traffic, arg>>

NextResultSet == ApplyParseResultSetFull

SpecResultSet == InitResultSet /\ [][NextResultSet]_vars

\* the rows of the result set as the decoder prints them
PrintedRows(rset) ==
    [r \in 1..Len(rset.rows) |->
        [k \in 1..Len(rset.names) |->
            [name |-> rset.names[k],
             val |-> IF rset.rows[r][k].isNull THEN NullText
                     ELSE rset.rows[r][k].val]]]

\* C19: for a well-formed result set of N columns and R rows the decoder
\* yields exactly the N column names in order and, when show_rows is set,
\* exactly R rows of N values each, a 0xFB byte being a NULL value and
\* every other value a length-encoded string; the result is the same
\* whether or not the EOF after the column definitions is present.
C19_ResultSetDecoded ==
    res # Nil =>
        /\ res[1].kind = "ResultSet"
        /\ res[1].columnCount = Len(arg.names)
        /\ res[1].columns = arg.names
        /\ res[1].rows = (IF arg.showRows THEN Some(PrintedRows(arg)) ELSE Nil)
        /\ res[1] = parseResultSetFull(
                        ResultSetPackets([arg EXCEPT !.midEOF = ~@]), arg.showRows)

\* two columns and two rows with a NULL, an empty and a non-empty value,
\* decoded with show_rows set and an EOF after the column definitions
C19_Witness ==
    /\ res # Nil
    /\ arg.showRows /\ arg.midEOF
    /\ Len(arg.names) = 2 /\ arg.names[1] # arg.names[2]
    /\ Len(arg.rows) = 2
    /\ arg.rows[1][1].isNull
    /\ arg.rows[2][1].val = <<120>>
    /\ arg.rows[2][2] = [isNull |-> FALSE, val |-> <<>>]
    /\ Len(res[1].rows[1]) = 2

\* ------------------------------------------------------------------------
\* The canonicalizer applied to two queries that differ in one literal,
\* list, whitespace run or route host
\* ------------------------------------------------------------------------

MaxListLen == 3

\* 1, 23 and 1.5
NumericLiterals == {<<49>>, <<50, 51>>, <<49, 46, 53>>}

\* 'x', 'y z', '', "x" and '\\' (one escaped backslash)
StringLiterals ==
    {<<39, 120, 39>>, <<39, 121, 32, 122, 39>>, <<39, 39>>, <<34, 120, 34>>,
     <<39, 92, 92, 39>>}

\* "," and ", "
ListSeparators == {<<44>>, <<44, 32>>}

\* " ", "  ", "\t" and "\n\r"
WhitespaceRuns == {<<32>>, <<32, 32>>, <<9>>, <<10, 13>>}

\* no host, "h:" and "g1:"
HostPrefixes == {<<>>, <<104, 58>>, <<103, 49, 58>>}

\* c=<literal> d
WithLiteral(lit) == <<99, 61>> \o lit \o <<32, 100>>

\* k literals 1 joined by sep
RECURSIVE ListElements(_, _)
ListElements(k, sep) ==
    IF k <= 1 THEN <<49>> ELSE <<49>> \o sep \o ListElements(k - 1, sep)

\* c in (<list>)
WithList(k, sep) == <<99, 32, 105, 110, 32, 40>> \o ListElements(k, sep) \o <<41>>

\* s<whitespace>t
WithSpace(ws) == <<115>> \o ws \o <<116>>

\* s /* <host>r */ t
WithRoute(host) == <<115, 32, 47, 42, 32>> \o host \o <<114, 32, 42, 47, 32, 116>>

QueryPairs ==
    {[kind |-> "number", q1 |-> WithLiteral(a), q2 |-> WithLiteral(b)]
        : a \in NumericLiterals, b \in NumericLiterals}
    \cup {[kind |-> "string", q1 |-> WithLiteral(a), q2 |-> WithLiteral(b)]
        : a \in StringLiterals, b \in StringLiterals}
    \cup {[kind |-> "list", q1 |-> WithList(j, sep), q2 |-> WithList(k, sep)]
        : j \in 1..MaxListLen, k \in 1..MaxListLen, sep \in ListSeparators}
    \cup {[kind |-> "space", q1 |-> WithSpace(a), q2 |-> WithSpace(b)]
        : a \in WhitespaceRuns, b \in WhitespaceRuns}
    \cup {[kind |-> "host", q1 |-> WithRoute(a), q2 |-> WithRoute(b)]
        : a \in HostPrefixes, b \in HostPrefixes}

InitPairs == NoTraffic /\ arg \in QueryPairs /\ res = Nil

\* cleanupQuery on both queries
ApplyCleanupQueryToPair ==
    /\ res = Nil
    /\ res' = Some([f1 |-> cleanupQuery(arg.q1), f2 |-> cleanupQuery(arg.q2)])
    /\ UNCHANGED <<traffic, arg>>

NextPairs == ApplyCleanupQueryToPair

SpecPairs == InitPairs /\ [][NextPairs]_vars

\* C20: two queries that differ only in the value of a numeric literal, the
\* contents of a string literal, the number of elements of an IN list, the
\* length or kind of a whitespace run or the host: prefix of a route
\* comment get the identical fingerprint.
C20_VariantsShareFingerprint ==
    res # Nil => res[1].f1 = res[1].f2

\* ------------------------------------------------------------------------
\* The canonicalizer applied to one query
\* ------------------------------------------------------------------------

MaxQueryLen == 6

\* '?', ',', ' ', '1' and 'a'
CanonBytes == {63, 44, 32, 49, 97}

\* "a:b:", a host prefix that itself holds a colon
HostWithColon == <<97, 58, 98, 58>>

\* short queries over CanonBytes, and queries with a route comment
CanonQueries ==
    UNION {[1..n -> CanonBytes] : n \in 0..MaxQueryLen}
    \cup {WithRoute(h) : h \in HostPrefixes \cup {HostWithColon}}

InitCanon == NoTraffic /\ arg \in CanonQueries /\ res = Nil

\* text := cleanupQuery(query)
ApplyCleanupQuery ==
    /\ res = Nil
    /\ res' = Some(cleanupQuery(arg))
    /\ UNCHANGED <<traffic, arg>>

NextCanon == ApplyCleanupQuery

SpecCanon == InitCanon /\ [][NextCanon]_vars

\* C21: canonicalizing a fingerprint again returns the same fingerprint.
C21_CanonicalizeIdempotent ==
    res # Nil => cleanupQuery(res[1]) = res[1]

\* s contains sub as a substring
Contains(s, sub) ==
    \E i \in 0..(Len(s) - Len(sub)) : SubSeq(s, i + 1, i + Len(sub)) = sub

\* C22: no fingerprint contains the substring "?, ".
C22_NoPlaceholderCommaSpace ==
    res # Nil => ~Contains(res[1], <<63, 44, 32>>)

\* ------------------------------------------------------------------------
\* The template parser applied to one template
\* ------------------------------------------------------------------------

MaxTemplateLen == 4

\* '#', 's', 'i', 'r', 'q', 'S', ' ' and ':'
FormatBytes == {35, 115, 105, 114, 113, 83, 32, 58}

\* "#s:#q", the default of the -f flag
DefaultTemplate == <<35, 115, 58, 35, 113>>

Templates ==
    UNION {[1..n -> FormatBytes] : n \in 0..MaxTemplateLen} \cup {DefaultTemplate}

InitFormat == NoTraffic /\ arg \in Templates /\ res = Nil

\* parseFormat(formatstr) with format empty
ApplyParseFormat ==
    /\ res = Nil
    /\ res' = Some(parseFormat(arg))
    /\ UNCHANGED <<traffic, arg>>

NextFormat == ApplyParseFormat

SpecFormat == InitFormat /\ [][NextFormat]_vars

\* the items of a template read left to right: '##' is the literal '#',
\* '#s', '#i', '#r', '#q' are tags, any other '#X' is the literal '#X' and
\* every other character is a literal
RECURSIVE TemplateItems(_)
TemplateItems(t) ==
    IF t = <<>> THEN <<>>
    ELSE IF t[1] = 35 /\ Len(t) >= 2
    THEN (IF t[2] = 35 THEN <<StrItem(<<35>>)>>
          ELSE IF t[2] = 115 THEN <<TagItem(F_SOURCE)>>
          ELSE IF t[2] = 105 THEN <<TagItem(F_SOURCEIP)>>
          ELSE IF t[2] = 114 THEN <<TagItem(F_ROUTE)>>
          ELSE IF t[2] = 113 THEN <<TagItem(F_QUERY)>>
          ELSE <<StrItem(<<35, t[2]>>)>>) \o TemplateItems(Drop(t, 2))
    ELSE <<StrItem(<<t[1]>>)>> \o TemplateItems(Drop(t, 1))

\* the template ends with a '#' that starts nothing
RECURSIVE EndsInLoneHash(_)
EndsInLoneHash(t) ==
    IF t = <<>> THEN FALSE
    ELSE IF t[1] = 35 THEN (Len(t) = 1 \/ EndsInLoneHash(Drop(t, 2)))
    ELSE EndsInLoneHash(Drop(t, 1))

\* adjacent literal items joined into maximal runs
RECURSIVE MergeLiterals(_)
MergeLiterals(items) ==
    IF Len(items) < 2 THEN items
    ELSE IF ~items[1].isTag /\ ~items[2].isTag
    THEN MergeLiterals(<<StrItem(items[1].str \o items[2].str)>> \o Drop(items, 2))
    ELSE <<items[1]>> \o MergeLiterals(Drop(items, 1))

\* C23: template parsing yields, in template order, the maximal literal
\* runs and the tags of the template, with '#s', '#i', '#r', '#q' replaced
\* by SOURCE, SOURCE_IP, ROUTE, QUERY, '##' by a literal '#', and an
\* unrecognized '#X' kept as the literal '#X'; no literal item is empty.
C23_TemplateParsedInOrder ==
    (res # Nil /\ ~EndsInLoneHash(arg)) =>
        /\ res[1] = MergeLiterals(TemplateItems(arg))
        /\ \A k \in 1..Len(res[1]) : res[1][k].isTag \/ res[1][k].str # <<>>

\* C24: an empty or all-whitespace template is parsed exactly as '#s:#q',
\* giving the items SOURCE, ':', QUERY.
C24_EmptyTemplateIsDefault ==
    (res # Nil /\ TrimSpace(arg) = <<>>) =>
        /\ res[1] = parseFormat(DefaultTemplate)
        /\ res[1] = <<TagItem(F_SOURCE), StrItem(<<58>>), TagItem(F_QUERY)>>

\* C25: the empty template yields the items SOURCE_IP, ':', QUERY.
C25_EmptyTemplateIsSourceIP ==
    (res # Nil /\ arg = <<>>) =>
        res[1] = <<TagItem(F_SOURCEIP), StrItem(<<58>>), TagItem(F_QUERY)>>

\* ------------------------------------------------------------------------
\* The formatter with the template "#r" applied to one query
\* ------------------------------------------------------------------------

MaxTailWords == 2

\* k words " t"
RECURSIVE TailWords(_)
TailWords(k) == IF k = 0 THEN <<>> ELSE <<32, 116>> \o TailWords(k - 1)

\* what follows the comment: nothing, a single space, or words
RouteTails == {TailWords(k) : k \in 0..MaxTailWords} \cup {<<32>>, <<32, 49>>}

\* "s", "" and "s t" before the comment; "/*" and "/"; "*/" and "*"
RouteHeads == {<<115>>, <<>>, <<115, 32, 116>>}

RouteOpeners == {<<47, 42>>, <<47>>}

RouteClosers == {<<42, 47>>, <<42>>}

\* head, opener, host prefix and route "r", closer, tail
RouteQueries ==
    {head \o <<32>> \o open \o <<32>> \o host \o <<114>> \o <<32>> \o close \o tail :
        head \in RouteHeads, open \in RouteOpeners,
        host \in HostPrefixes \cup {HostWithColon}, close \in RouteClosers,
        tail \in RouteTails}

InitRoute == NoTraffic /\ arg \in RouteQueries /\ res = Nil

\* formatQueryText(rs, pdata) with format = parseFormat("#r")
ApplyFormatRoute ==
    /\ res = Nil
    /\ res' = Some(FormatItems(NewSource(Client1), parseFormat(<<35, 114>>), arg))
    /\ UNCHANGED <<traffic, arg>>

NextRoute == ApplyFormatRoute

SpecRoute == InitRoute /\ [][NextRoute]_vars

\* the query split on single spaces into at most 5 parts
RouteParts(q) == SplitN(q, 32, 5)

\* at least n parts, part 1 = "/*" and part 3 = "*/" (parts counted from 0)
RouteShape(q, n) ==
    /\ Len(RouteParts(q)) >= n
    /\ RouteParts(q)[2] = <<47, 42>>
    /\ RouteParts(q)[4] = <<42, 47>>

\* part with everything up to and including its first ':' removed
AfterFirstColon(part) == Drop(part, IndexByte(part, 58) + 1)

Unknown == <<40, 117, 110, 107, 110, 111, 119, 110, 41, 32>>

\* the ROUTE text when the route shape needs n parts
RouteOutcome(q, n) ==
    IF RouteShape(q, n) THEN AfterFirstColon(RouteParts(q)[3])
    ELSE Unknown \o cleanupQuery(q)

\* C26 as stated: the route is emitted exactly for queries with five parts,
\* part 1 = "/*" and part 3 = "*/", as part 2 without its prefix up to the
\* first ':'; every other query gives "(unknown) " and the fingerprint.
C26_RouteOnlyForFiveParts == res # Nil => res[1] = RouteOutcome(arg, 5)

\* C26: the route is emitted exactly for queries with at least four parts,
\* part 1 = "/*" and part 3 = "*/", as part 2 without its prefix up to the
\* first ':'; every other query gives "(unknown) " and the fingerprint.
C26_RouteForFourParts == res # Nil => res[1] = RouteOutcome(arg, 4)

\* a route with a host prefix was emitted for a five-part query
C26_Witness ==
    /\ res # Nil
    /\ RouteShape(arg, 5)
    /\ IndexByte(RouteParts(arg)[3], 58) >= 0
    /\ res[1] = <<114>>

\* ------------------------------------------------------------------------
\* calculateTimes applied to one reservoir
\* ------------------------------------------------------------------------

MaxSlots == 3

\* math.MaxInt64, the largest time.Duration
MaxDuration == <<32767, 65535, 65535, 65535>>

\* 0 (no reading), 1ns, 5ms, 2^62 ns and the largest duration
TimeValues == {U64Zero, U64Of(1), U64Of(5000000), <<16384, 0, 0, 0>>, MaxDuration}

Reservoirs == [1..MaxSlots -> TimeValues]

InitTimes == NoTraffic /\ arg \in Reservoirs /\ res = Nil

ApplyCalculateTimes ==
    /\ res = Nil
    /\ res' = Some(calculateTimes(arg))
    /\ UNCHANGED <<traffic, arg>>

NextTimes == ApplyCalculateTimes

SpecTimes == InitTimes /\ [][NextTimes]_vars

U64LessEq(x, y) == x = y \/ U64Less(x, y)

NonZeroSlots(r) == {i \in DOMAIN r : r[i] # U64Zero}

\* the 64-bit unsigned sum of the slots idx of r
RECURSIVE U64Sum(_, _)
U64Sum(r, idx) ==
    IF idx = {} THEN U64Zero
    ELSE LET i == CHOOSE j \in idx : TRUE
         IN  U64Add(r[i], U64Sum(r, idx \ {i}))

\* min and max are the least and greatest non-zero slot, avg the quotient
\* of the 64-bit sum of the non-zero slots by their number
AggregatesOfNonZero(r, out) ==
    /\ \E i \in NonZeroSlots(r) : r[i] = out.fmin.nanos
    /\ \A i \in NonZeroSlots(r) : U64LessEq(out.fmin.nanos, r[i])
    /\ \E i \in NonZeroSlots(r) : r[i] = out.fmax.nanos
    /\ \A i \in NonZeroSlots(r) : U64LessEq(r[i], out.fmax.nanos)
    /\ out.favg.nanos = U64Div(U64Sum(r, NonZeroSlots(r)), Cardinality(NonZeroSlots(r)))

\* C27: for a reservoir with a non-zero slot min <= avg <= max, with min and
\* max the least and greatest non-zero slot and avg the integer quotient of
\* the 64-bit unsigned sum of the non-zero slots by their number; an
\* all-zero reservoir gives (0, 0, 0).
C27_MinAvgMax ==
    res # Nil =>
        IF NonZeroSlots(arg) = {}
        THEN res[1] = [fmin |-> Millis(U64Zero), favg |-> Millis(U64Zero),
                       fmax |-> Millis(U64Zero)]
        ELSE /\ AggregatesOfNonZero(arg, res[1])
             /\ U64LessEq(res[1].fmin.nanos, res[1].favg.nanos)
             /\ U64LessEq(res[1].favg.nanos, res[1].fmax.nanos)

\* ------------------------------------------------------------------------
\* The status report over one fingerprint table
\* ------------------------------------------------------------------------

MaxFingerprints == 3

MaxDisplayCount == 3

\* fingerprints "a", "b", "c", ...
Fingerprints == {<<96 + k>> : k \in 1..MaxFingerprints}

\* a reservoir of the traffic model as uint64 slots
ReservoirOf(r) == [i \in DOMAIN r |-> U64Of(r[i])]

\* queryData values: counts 1 and 2, bytes 6 and 8, readings of 1ns..7ns
QueryDataValues ==
    {[count |-> 1, bytes |-> 8, times |-> ReservoirOf(<<5>>)],
     [count |-> 2, bytes |-> 6, times |-> ReservoirOf(<<1, 7>>)],
     [count |-> 2, bytes |-> 8, times |-> ReservoirOf(<<>>)]}

FingerprintTables == UNION {[fps -> QueryDataValues] : fps \in SUBSET Fingerprints}

SortKeys == {"count", "avg", "max", "maxbytes", "avgbytes"}

StatusInputs ==
    [table : FingerprintTables, elapsed : {0, 1, 2}, displaycount : 0..MaxDisplayCount,
     sortby : SortKeys, cutoff : {0, 1, 2}]

\* "qps := float64(c.count) / elapsed; if qps < float64(cutoff)": a zero
\* elapsed gives +Inf, which is below no cutoff
BelowCutoff(c, elapsed, cutoff) == elapsed # 0 /\ c.count < cutoff * elapsed

\* a float64 sort value as the fraction num / den
Value(num, den) == [num |-> num, den |-> den]

\* bavg := uint64(float64(c.bytes) / float64(c.count))
AvgBytes(c) == c.bytes \div c.count

\* the value the line of c is sorted by
Sorted(c, sortby) ==
    LET t == calculateTimes(c.times)
    IN  IF sortby = "avg" THEN Value(t.favg.nanos, t.favg.perMilli)
        ELSE IF sortby = "max" THEN Value(t.fmax.nanos, t.fmax.perMilli)
        ELSE IF sortby = "maxbytes" THEN Value(U64Of(c.bytes), 1)
        ELSE IF sortby = "avgbytes" THEN Value(U64Of(AvgBytes(c)), 1)
        ELSE Value(U64Of(c.count), 1)

\* sortable{sorted, fmt.Sprintf(...)}: the line keeps the printed fields
Sortable(q, c, elapsed, sortby) ==
    [value |-> Sorted(c, sortby),
     line |-> [count |-> c.count, qps |-> [count |-> c.count, elapsed |-> elapsed],
               times |-> calculateTimes(c.times), bytes |-> c.bytes,
               bavg |-> AvgBytes(c), q |-> q]]

\* tmp after the loop over qbuf, as a set: the order of a map range is not fixed
Tmp(table, elapsed, sortby, cutoff) ==
    {Sortable(q, table[q], elapsed, sortby) :
        q \in {f \in DOMAIN table : ~BelowCutoff(table[f], elapsed, cutoff)}}

\* faulty variant: the comparison is reversed
Less_Reversed(a, b) == U64Less(b.value.num, a.value.num)

\* sortableSlice.Less; all values of one report have the same den
Less(a, b) == U64Less(a.value.num, b.value.num)

\* the orders sort.Sort(tmp) can leave tmp in
SortedOrders(tmp) ==
    {s \in [1..Cardinality(tmp) -> tmp] :
        /\ \A i, j \in DOMAIN s : i # j => s[i] # s[j]
        /\ \A i, j \in DOMAIN s : i < j => ~Less(s[j], s[i])}

\* the lines printed by "for i := 1; i <= displaycount; i++"
PrintedLines(s, displaycount) ==
    LET n == IF Len(s) < displaycount THEN Len(s) ELSE displaycount
    IN  [i \in 1..n |-> s[Len(s) - i + 1].line]

InitStatus == NoTraffic /\ arg \in StatusInputs /\ res = Nil

\* handleStatusUpdate(displaycount, sortby, cutoff) with qbuf = arg.table,
\* arg.elapsed seconds after start
ApplyHandleStatusUpdate ==
    /\ res = Nil
    /\ \E s \in SortedOrders(Tmp(arg.table, arg.elapsed, arg.sortby, arg.cutoff)) :
          res' = Some([queryCount |-> queryCount, stats |-> stats,
                       global |-> calculateTimes(ReservoirOf(times)),
                       unique |-> Cardinality(DOMAIN arg.table),
                       lines |-> PrintedLines(s, arg.displaycount)])
    /\ UNCHANGED <<traffic, arg>>

NextStatus == ApplyHandleStatusUpdate

SpecStatus == InitStatus /\ [][NextStatus]_vars

\* the fingerprints whose queries per second are not below the cutoff
PassedCutoff ==
    {q \in DOMAIN arg.table :
        arg.elapsed = 0 \/ arg.table[q].count >= arg.cutoff * arg.elapsed}

\* the selected sort key of fingerprint q, in nanoseconds, bytes or queries
KeyOf(q) ==
    LET c == arg.table[q]
        t == calculateTimes(c.times)
    IN  CASE arg.sortby = "avg" -> t.favg.nanos
          [] arg.sortby = "max" -> t.fmax.nanos
          [] arg.sortby = "maxbytes" -> U64Of(c.bytes)
          [] arg.sortby = "avgbytes" -> U64Of(c.bytes \div c.count)
          [] OTHER -> U64Of(c.count)

Listed == {res[1].lines[i].q : i \in DOMAIN res[1].lines}

\* C28: the report lists exactly min(displaycount, m) fingerprints, m being
\* the number that passed the cutoff, each once, in non-increasing order of
\* the selected sort key, and no unlisted fingerprint that passed the cutoff
\* has a greater key than a listed one.
C28_TopByKey ==
    res # Nil =>
        /\ Len(res[1].lines) = Min({arg.displaycount, Cardinality(PassedCutoff)})
        /\ Cardinality(Listed) = Len(res[1].lines)
        /\ Listed \subseteq PassedCutoff
        /\ \A i, j \in DOMAIN res[1].lines :
              i < j => U64LessEq(KeyOf(res[1].lines[j].q), KeyOf(res[1].lines[i].q))
        /\ \A q \in Listed : \A u \in PassedCutoff \ Listed :
              U64LessEq(KeyOf(u), KeyOf(q))

\* two of three fingerprints that passed a cutoff are listed, with different
\* keys, and one fingerprint was cut off
C28_Witness ==
    /\ res # Nil
    /\ Len(res[1].lines) = 2
    /\ Cardinality(PassedCutoff) = 2
    /\ Cardinality(DOMAIN arg.table) = 3
    /\ KeyOf(res[1].lines[1].q) # KeyOf(res[1].lines[2].q)

\* ------------------------------------------------------------------------
\* handlePacket on the packets of several connections
\* ------------------------------------------------------------------------

MaxFlowPackets == 3

\* the -P default
port == 3306

\* the %d of fmt.Sprintf
RECURSIVE Itoa(_)
Itoa(n) == IF n < 10 THEN <<48 + n>> ELSE Itoa(n \div 10) \o <<48 + (n % 10)>>

\* fmt.Sprintf("%s:%d", ip, p)
HostPort(ip, p) == ip \o <<58>> \o Itoa(p)

\* the server "9" listening on port
ServerIP == <<57>>

\* the client ends of three connections: "1":7, "2":7 and "1":3306
Connections ==
    {[ip |-> <<49>>, port |-> 7], [ip |-> <<50>>, port |-> 7],
     [ip |-> <<49>>, port |-> port]}

ToServer(c, payload) ==
    [srcIP |-> c.ip, srcPort |-> c.port, dstIP |-> ServerIP, dstPort |-> port,
     payload |-> payload]

ToClient(c, payload) ==
    [srcIP |-> ServerIP, srcPort |-> port, dstIP |-> c.ip, dstPort |-> c.port,
     payload |-> payload]

\* empty segments, a query and an OK packet
FlowPackets ==
    {ToServer(c, p) : c \in Connections, p \in {<<>>, qSelA}}
    \cup {ToClient(c, p) : c \in Connections, p \in {<<>>, Pkt(<<0, 0, 0, 2, 0, 0, 0>>)}}

\* "if len(payload) <= 0 { return }": nothing but the history changes
EmptyPayload ==
    /\ ev' = [kind |-> "empty", src |-> <<>>, data |-> <<>>, pre |-> NewSource(<<>>)]
    /\ hist' = Append(hist, [kind |-> "empty", src |-> <<>>, recorded |-> FALSE,
                             paired |-> FALSE])
    /\ UNCHANGED <<chmap, qbuf, queryCount, times, stats, clock, arg, res>>

\* handlePacket(packet) for an IPv4 TCP packet of the capture filter
handlePacket(pkt) ==
    IF Len(pkt.payload) <= 0 THEN EmptyPayload
    ELSE IF pkt.srcPort = port
    THEN HandleResponse(HostPort(pkt.dstIP, pkt.dstPort), pkt.payload)
    ELSE pkt.dstPort = port /\ HandleRequest(HostPort(pkt.srcIP, pkt.srcPort), pkt.payload)

Packet(pkt) == Len(hist) < MaxFlowPackets /\ handlePacket(pkt)

NextFlows == \E pkt \in FlowPackets : Packet(pkt)

SpecFlows == Init /\ [][NextFlows]_vars

\* the client end of the connection a packet belongs to: the end that is
\* not the server
ClientOf(pkt) ==
    IF pkt.dstIP = ServerIP /\ pkt.dstPort = port
    THEN HostPort(pkt.srcIP, pkt.srcPort)
    ELSE HostPort(pkt.dstIP, pkt.dstPort)

\* a flow as it is created
Fresh(rs) ==
    ~rs.synced /\ rs.reqBuffer = Nil /\ rs.respBuffer = Nil /\ rs.reqSent = Nil

\* what the handling of pkt does to the flow map
FlowOfClient(pkt) ==
    IF pkt.payload = <<>> THEN chmap' = chmap
    ELSE /\ DOMAIN chmap' = (DOMAIN chmap) \cup {ClientOf(pkt)}
         /\ ev'.src = ClientOf(pkt)
         /\ ClientOf(pkt) \notin DOMAIN chmap => Fresh(ev'.pre)
         /\ \A c \in (DOMAIN chmap) \ {ClientOf(pkt)} : chmap'[c] = chmap[c]

\* C29: the first non-empty segment of a connection, in either direction,
\* creates the flow of its client endpoint, unsynced, with empty buffers
\* and no outstanding timestamp; both directions use that flow; flows are
\* never removed; the stream counter is the number of flows.
C29_OneFlowPerClient ==
    /\ [](stats.streams = Cardinality(DOMAIN chmap))
    /\ [][(DOMAIN chmap) \subseteq DOMAIN chmap']_vars
    /\ [][\A pkt \in FlowPackets : Packet(pkt) => FlowOfClient(pkt)]_vars

\* ------------------------------------------------------------------------
\* One connection with strictly serialized traffic
\* ------------------------------------------------------------------------

MaxSerialPackets == 6

\* complete COM_QUERY requests, one segment each
SerialRequests == {qSelA, qSelB, qAttrB}

\* the server's response, an OK packet, whole or cut into two segments
okWhole == Pkt(<<0, 0, 0, 2, 0, 0, 0>>)

okHead == Take(okWhole, 5)

okTail == Drop(okWhole, 5)

\* the client sends after the full response to its previous request
SerialRequest(data) ==
    /\ Len(hist) < MaxSerialPackets
    /\ ev.kind = "none" \/ (ev.kind = "response" /\ ev.data \in {okWhole, okTail})
    /\ HandleRequest(Client1, data)

\* the server answers the outstanding request, or continues its answer
SerialResponse(data) ==
    /\ Len(hist) < MaxSerialPackets
    /\ \/ ev.kind = "request" /\ data \in {okWhole, okHead}
       \/ ev.kind = "response" /\ ev.data = okHead /\ data = okTail
    /\ HandleResponse(Client1, data)

NextSerial ==
    \/ \E data \in SerialRequests : SerialRequest(data)
    \/ \E data \in {okWhole, okHead, okTail} : SerialResponse(data)

SpecSerial == Init /\ [][NextSerial]_vars

\* the latency samples taken after request i and before the next request
SamplesOf(i) ==
    {j \in (i + 1)..Len(hist) :
        /\ hist[j].paired
        /\ \A k \in (i + 1)..j : hist[k].kind = "response"}

\* every request that has been answered has exactly one sample, and no
\* request has more than one
OneSamplePerRequest ==
    \A i \in DOMAIN hist :
        hist[i].kind = "request" =>
            /\ Cardinality(SamplesOf(i)) <= 1
            /\ (i < Len(hist) => Cardinality(SamplesOf(i)) = 1)

\* C30: on a strictly serialized flow the desync counter is never
\* incremented, the flow is synced from its first request on, and every
\* request is paired with exactly one latency sample.
C30_SerializedStaysPaired ==
    /\ [][stats'.desyncs = stats.desyncs]_vars
    /\ [](hist # <<>> => chmap[Client1].synced)
    /\ []OneSamplePerRequest

\* ------------------------------------------------------------------------
\* The states of a flow
\* ------------------------------------------------------------------------

\* a flow with an outstanding request is synced and has no buffered response
AwaitingIsSyncedAndEmpty(rs) == rs.reqSent # Nil => (rs.synced /\ rs.respBuffer = Nil)

\* C31: in every reachable state a flow whose outstanding-request timestamp
\* is set is synced with an empty response buffer (so a flow is Unsynced
\* without timestamp, Synced-idle, or Synced-awaiting with an empty response
\* buffer), and the response buffer is empty right after every request step.
C31_FlowStates ==
    /\ [](\A c \in DOMAIN chmap : AwaitingIsSyncedAndEmpty(chmap[c]))
    /\ [][RequestStep => PostFlow.respBuffer = Nil]_vars

\* a request was recorded on a flow that had buffered response bytes: the
\* flow is awaiting, synced, and its buffer was emptied
C31_Witness ==
    /\ ev.kind = "request"
    /\ ev.pre.respBuffer # Nil
    /\ chmap[Client1].reqSent # Nil
    /\ chmap[Client1].synced
    /\ chmap[Client1].respBuffer = Nil

\* ------------------------------------------------------------------------
\* The tokenizer applied to one input
\* ------------------------------------------------------------------------

MaxTokenInputLen == 4

\* ' " \ a 1 space tab $ and ,
TokenBytes == {39, 34, 92, 97, 49, 32, 9, 36, 44}

TokenInputs == UNION {[1..n -> TokenBytes] : n \in 1..MaxTokenInputLen}

InitToken == NoTraffic /\ arg \in TokenInputs /\ res = Nil

ApplyScanToken ==
    /\ res = Nil
    /\ res' = Some(scanToken(arg))
    /\ UNCHANGED <<traffic, arg>>

NextToken == ApplyScanToken

SpecToken == InitToken /\ [][NextToken]_vars

LetterBytes == (65..90) \cup (97..122)

DigitBytes == 48..57

SpaceBytes == (9..13) \cup {32}

\* n is the length of the longest prefix of q whose bytes after the first
\* are all in set
MaximalRun(q, set, n) ==
    /\ n \in 1..Len(q)
    /\ \A k \in 2..n : q[k] \in set
    /\ n < Len(q) => q[n + 1] \notin set

\* n ends at the first later occurrence of the opening quote that does not
\* follow a backslash, or is the whole input when there is none
QuoteEnd(q, n) ==
    LET closing == {k \in 2..Len(q) : q[k] = q[1] /\ q[k - 1] # 92}
    IN  IF closing = {} THEN n = Len(q)
        ELSE n \in closing /\ \A k \in closing : n <= k

\* C32: on a non-empty input the tokenizer returns the class of the first
\* byte and the length of the maximal matching prefix: WORD (letter, then
\* letters, digits, '$', '_'), NUMBER (digits), WHITESPACE (9..13, 32),
\* QUOTE (up to and including the first same quote not right after a
\* backslash, or the whole input), OTHER (one byte).
C32_TokenClassAndLength ==
    res # Nil =>
        LET q == arg
            n == res[1].length
            t == res[1].thistype
        IN  IF q[1] \in {39, 34} THEN t = TOKEN_QUOTE /\ QuoteEnd(q, n)
            ELSE IF q[1] \in DigitBytes
            THEN t = TOKEN_NUMBER /\ MaximalRun(q, DigitBytes, n)
            ELSE IF q[1] \in SpaceBytes
            THEN t = TOKEN_WHITESPACE /\ MaximalRun(q, SpaceBytes, n)
            ELSE IF q[1] \in LetterBytes
            THEN t = TOKEN_WORD
                 /\ MaximalRun(q, LetterBytes \cup DigitBytes \cup {36, 95}, n)
            ELSE t = TOKEN_OTHER /\ n = 1

\* a quote with an escaped quote inside was scanned to its closing quote
C32_Witness ==
    /\ res # Nil
    /\ arg = <<39, 92, 39, 39>>
    /\ res[1] = [length |-> 4, thistype |-> TOKEN_QUOTE]

\* ------------------------------------------------------------------------
\* The response re-framer applied to one buffer
\* ------------------------------------------------------------------------

MaxPieces == 3

\* whole packets of 1, 2 and 3 payload bytes, a header declaring length 0,
\* a cut header and a packet cut short
BufferPieces ==
    {Pkt(<<1>>), Pkt(<<3, 97>>), <<3, 0, 0, 1, 0, 0, 0>>, <<0, 0, 0, 0>>, <<2, 0, 0>>,
     <<3, 0, 0, 1, 9>>}

RECURSIVE Concat(_)
Concat(pieces) == IF pieces = <<>> THEN <<>> ELSE Head(pieces) \o Concat(Tail(pieces))

PieceBuffers == {Concat(ps) : ps \in UNION {[1..n -> BufferPieces] : n \in 0..MaxPieces}}

InitReframer == NoTraffic /\ arg \in PieceBuffers /\ res = Nil

ApplyCollectAllResponsePackets ==
    /\ res = Nil
    /\ res' = Some(collectAllResponsePackets(arg))
    /\ UNCHANGED <<traffic, arg>>

NextReframer == ApplyCollectAllResponsePackets

SpecReframer == InitReframer /\ [][NextReframer]_vars

\* the payloads the wire framer carves from buf until it reports incomplete
RECURSIVE CarvedUntilIncomplete(_)
CarvedUntilIncomplete(buf) ==
    LET r == carvePacket(buf)
    IN  IF r.err THEN <<>>
        ELSE <<<<r.pType>> \o r.data>> \o CarvedUntilIncomplete(r.buf)

\* buf starts with the packets, each behind a 4-byte header declaring its length
RECURSIVE FramedPrefix(_, _)
FramedPrefix(buf, packets) ==
    \/ packets = <<>>
    \/ /\ Len(buf) >= 4 + Len(packets[1])
       /\ buf[1] + buf[2] * 256 + buf[3] * 65536 = Len(packets[1])
       /\ SubSeq(buf, 5, 4 + Len(packets[1])) = packets[1]
       /\ FramedPrefix(Drop(buf, 4 + Len(packets[1])), Tail(packets))

\* C33: the payloads the response re-framer returns are those the wire
\* framer yields when applied until it reports incomplete (command byte
\* followed by data), and with their headers they form a prefix of the
\* buffer; a trailing incomplete packet is left out.
C33_ReframerAgreesWithFramer ==
    res # Nil =>
        /\ res[1] = CarvedUntilIncomplete(arg)
        /\ FramedPrefix(arg, res[1])

\* two packets were returned and an incomplete rest was left out
C33_Witness ==
    /\ res # Nil
    /\ Len(res[1]) = 2
    /\ Len(arg) > 8 + Len(res[1][1]) + Len(res[1][2])

\* ------------------------------------------------------------------------
\* The fingerprint table and the global query count
\* ------------------------------------------------------------------------

\* the sum of the counts of the fingerprints keys of table q
RECURSIVE SumCounts(_, _)
SumCounts(q, keys) ==
    IF keys = {} THEN 0
    ELSE LET k == CHOOSE x \in keys : TRUE
         IN  q[k].count + SumCounts(q, keys \ {k})

\* C34: the per-fingerprint counts add up to the global query count in
\* every reachable state; counts and cumulative bytes never decrease and no
\* fingerprint entry is removed.
C34_CountsAddUp ==
    /\ [](SumCounts(qbuf, DOMAIN qbuf) = queryCount)
    /\ [][\A t \in DOMAIN qbuf :
            /\ t \in DOMAIN qbuf'
            /\ qbuf'[t].count >= qbuf[t].count
            /\ qbuf'[t].bytes >= qbuf[t].bytes]_vars

\* two fingerprints, one of them counted twice
C34_Witness ==
    /\ Cardinality(DOMAIN qbuf) = 2
    /\ queryCount = 3
    /\ \E t \in DOMAIN qbuf : qbuf[t].count = 2

\* ------------------------------------------------------------------------
\* Latency samples and recorded requests
\* ------------------------------------------------------------------------

\* the steps of flow c that took a latency sample, and those that recorded
\* a request
PairingSteps(c) == {i \in DOMAIN hist : hist[i].src = c /\ hist[i].paired}

RecordingSteps(c) == {i \in DOMAIN hist : hist[i].src = c /\ hist[i].recorded}

\* C35: on every flow the latency samples taken are at most as many as the
\* requests recorded, a request is recorded between any two consecutive
\* samples, and a response segment that finds no outstanding request takes
\* no sample.
C35_SamplesFollowRequests ==
    /\ [](\A c \in DOMAIN chmap :
            /\ Cardinality(PairingSteps(c)) <= Cardinality(RecordingSteps(c))
            /\ \A i, j \in PairingSteps(c) :
                  i < j => \E k \in RecordingSteps(c) : i < k /\ k < j)
    /\ [][(ResponseStep /\ PreFlow.reqSent = Nil) =>
            /\ times' = times
            /\ PreFlow.qData # Nil =>
                  qbuf'[PreFlow.qData[1]].times = qbuf[PreFlow.qData[1]].times
            /\ PostFlow.reqTimes = PreFlow.reqTimes
            /\ ~hist'[Len(hist')].paired]_vars

\* two samples with a recorded request between them
C35_Witness ==
    /\ Cardinality(PairingSteps(Client1)) = 2
    /\ Cardinality(RecordingSteps(Client1)) = 2

\* ------------------------------------------------------------------------
\* The response bytes handed to the decoder
\* ------------------------------------------------------------------------

\* the responseData argument of displayQueryResult(rs.hostPort, rs.qText,
\* rs.respBuffer, ...) when a response segment data is paired on flow rs
ResponseData(rs, data) == Accumulate(rs, data).respBuffer

\* C36: when a response segment is paired, the buffer handed to the
\* response decoder is exactly that segment's payload, the segment is the
\* first response segment after a request, and the buffer is emptied
\* afterwards, so bytes of later segments are never decoded.
C36_DecodedBufferIsTheSegment ==
    [][(ResponseStep /\ PreFlow.reqSent # Nil) =>
          /\ ResponseData(PreFlow, ev'.data) = ev'.data
          /\ hist # <<>> /\ hist[Len(hist)].kind = "request"
          /\ PostFlow.respBuffer = Nil]_vars

\* a response was paired on a flow that had dropped buffered response
\* bytes of an earlier response
C36_Witness ==
    /\ ev.kind = "response"
    /\ ev.pre.reqSent # Nil
    /\ stats.desyncs = 1
    /\ chmap[Client1].respBuffer = Nil

\* ------------------------------------------------------------------------
\* The result-set decoder applied to any list of packets
\* ------------------------------------------------------------------------

MaxListPackets == 4

\* column counts 1 and 2, a column definition, EOF, rows of one and of two
\* values
AnyPackets ==
    {<<1>>, <<2>>, ColumnDefPacket(<<97>>), eofPacket, <<1, 120>>, <<1, 120, 1, 121>>}

PacketLists == UNION {[1..n -> AnyPackets] : n \in 0..MaxListPackets}

InitAnyList == NoTraffic /\ arg \in PacketLists /\ res = Nil

\* parseResultSetFull(packets, true)
ApplyParseAnyList ==
    /\ res = Nil
    /\ res' = Some(parseResultSetFull(arg, TRUE))
    /\ UNCHANGED <<traffic, arg>>

NextAnyList == ApplyParseAnyList

SpecAnyList == InitAnyList /\ [][NextAnyList]_vars

\* C37: with show_rows set, result-set decoding of any list of packets
\* completes without an out-of-range access, and every displayed row value
\* is labelled with a parsed column name.
C37_NoOutOfRange ==
    res # Nil =>
        /\ ~res[1].panic
        /\ res[1].kind = "ResultSet" =>
              \A r \in DOMAIN res[1].rows[1] :
                  Len(res[1].rows[1][r]) <= Len(res[1].columns)

\* ------------------------------------------------------------------------
\* Isolation of flows
\* ------------------------------------------------------------------------

\* the states flow rs can be in after a segment of its own, handled at time
\* tnow with no other flow present
AloneAfter(rs, kind, data, tnow) ==
    IF kind = "request" THEN {processRequest(rs, data, tnow).rs}
    ELSE LET acc == Accumulate(rs, data)
         IN  IF NoRequestSent(acc) THEN {acc}
             ELSE {Paired(acc, randn, tnow - acc.reqSent[1]) : randn \in Slots}

\* C38: a segment of one flow leaves every other flow's synced flag,
\* buffers, timestamp, last-query context and reservoir unchanged, and
\* takes its own flow to a state that depends only on that flow's state and
\* the segment; so in any interleaving each flow runs as it does alone.
C38_FlowsIsolated ==
    [][ev'.kind \in {"request", "response"} =>
          /\ \A c \in (DOMAIN chmap) \ {ev'.src} : chmap'[c] = chmap[c]
          /\ DOMAIN chmap' = (DOMAIN chmap) \cup {ev'.src}
          /\ PostFlow \in AloneAfter(PreFlow, ev'.kind, ev'.data, clock')]_vars

\* a segment was handled on one flow while another flow was awaiting its
\* response
C38_Witness ==
    /\ ev.kind \in {"request", "response"}
    /\ \E c \in (DOMAIN chmap) \ {ev.src} : chmap[c].reqSent # Nil /\ chmap[c].synced
    /\ chmap[ev.src].qText # <<>>

\* ------------------------------------------------------------------------
\* The loops of cleanupQuery and collectAllResponsePackets, step by step
\* ------------------------------------------------------------------------

MaxLoopInputLen == 4

\* ' \ a 1 space and ,
LoopBytes == {39, 92, 97, 49, 32, 44}

LoopInputs ==
    [kind : {"query"}, bytes : UNION {[1..n -> LoopBytes] : n \in 0..MaxLoopInputLen}]
    \cup [kind : {"buffer"}, bytes : PieceBuffers]

\* "for i := 0; ..." and "buf := buffer": nothing consumed, nothing collected
InitLoop == NoTraffic /\ arg \in LoopInputs /\ res = Some([i |-> 0, n |-> 0])

\* one iteration of "for i := 0; i < len(query); { ...; i += length }"
TokenStep ==
    /\ arg.kind = "query"
    /\ res[1].i < Len(arg.bytes)
    /\ res' = Some([i |-> res[1].i + scanToken(Drop(arg.bytes, res[1].i)).length,
                    n |-> res[1].n + 1])
    /\ UNCHANGED <<traffic, arg>>

\* the loop condition and the break test of collectAllResponsePackets
FrameAvailable(buf) ==
    /\ Len(buf) >= 4
    /\ ~(buf[1] + buf[2] * 256 + buf[3] * 65536 = 0
         \/ Len(buf) < buf[1] + buf[2] * 256 + buf[3] * 65536 + 4)

\* one iteration of "for len(buf) >= 4 { ...; buf = buf[size+4:] }"
FrameStep ==
    /\ arg.kind = "buffer"
    /\ LET buf == Drop(arg.bytes, res[1].i)
       IN  /\ FrameAvailable(buf)
           /\ res' = Some([i |-> res[1].i + (buf[1] + buf[2] * 256 + buf[3] * 65536) + 4,
                           n |-> res[1].n + 1])
    /\ UNCHANGED <<traffic, arg>>

NextLoop == TokenStep \/ FrameStep

\* a running loop takes its next iteration
SpecLoop == InitLoop /\ [][NextLoop]_vars /\ WF_vars(NextLoop)

\* the loop has ended: every query byte is in a token, or no further
\* packet can be extracted from the rest of the buffer
LoopDone ==
    IF arg.kind = "query" THEN res[1].i = Len(arg.bytes)
    ELSE /\ ~FrameAvailable(Drop(arg.bytes, res[1].i))
         /\ res[1].n = Len(collectAllResponsePackets(arg.bytes))

\* C39: every token has a length between 1 and the rest of the input, so
\* canonicalize puts every byte in exactly one token and terminates; the
\* response re-framer consumes at least 5 bytes per packet and terminates.
C39_LoopsTerminate ==
    /\ [][TokenStep =>
            /\ res'[1].i >= res[1].i + 1
            /\ res'[1].i <= Len(arg.bytes)]_vars
    /\ [][FrameStep =>
            /\ res'[1].i >= res[1].i + 5
            /\ res'[1].i <= Len(arg.bytes)]_vars
    /\ <>[]LoopDone

\* a query of three tokens was consumed to its end
C39_Witness ==
    /\ arg.kind = "query"
    /\ res[1].n = 3
    /\ res[1].i = Len(arg.bytes)
    /\ Len(arg.bytes) > 3

====
